---- MODULE Spec2Model ----
(***************************************************************************)
(* A model of the calendar enhancement engine of                           *)
(* scripts/calendar_enhancer.py and scripts/calendar_lib.py.               *)
(*                                                                         *)
(* Python strings are modelled as sequences of one-character strings, so   *)
(* that substring tests, regular expressions, split, strip and join are    *)
(* computed character by character as the code computes them.              *)
(***************************************************************************)
EXTENDS Integers, Sequences, FiniteSets, TLC

(***************************************************************************)
(* Characters and the string primitives of Python used by the code         *)
(***************************************************************************)

\* str.lower() on the letters of the model's alphabet
LowerTable ==
  [A |-> "a", B |-> "b", C |-> "c", D |-> "d", E |-> "e", F |-> "f", G |-> "g",
   H |-> "h", I |-> "i", J |-> "j", K |-> "k", L |-> "l", M |-> "m", N |-> "n",
   O |-> "o", P |-> "p", Q |-> "q", R |-> "r", S |-> "s", T |-> "t", U |-> "u",
   V |-> "v", W |-> "w", X |-> "x", Y |-> "y", Z |-> "z"]

\* str.upper() on the letters of the model's alphabet
UpperTable ==
  [a |-> "A", b |-> "B", c |-> "C", d |-> "D", e |-> "E", f |-> "F", g |-> "G",
   h |-> "H", i |-> "I", j |-> "J", k |-> "K", l |-> "L", m |-> "M", n |-> "N",
   o |-> "O", p |-> "P", q |-> "Q", r |-> "R", s |-> "S", t |-> "T", u |-> "U",
   v |-> "V", w |-> "W", x |-> "X", y |-> "Y", z |-> "Z"]

UpperLetters == DOMAIN LowerTable

LowerLetters == DOMAIN UpperTable

Digits == {"0", "1", "2", "3", "4", "5", "6", "7", "8", "9"}

\* the characters the regular expression class \s matches
Whitespace == {" ", "\t", "\n"}

\* the characters the regular expression class \w matches
IsWordChar(c) == c \in UpperLetters \cup LowerLetters \cup Digits \cup {"_"}

LowerChar(c) == IF c \in UpperLetters THEN LowerTable[c] ELSE c

UpperChar(c) == IF c \in LowerLetters THEN UpperTable[c] ELSE c

\* s.lower()
Lower(s) == [i \in 1..Len(s) |-> LowerChar(s[i])]

\* s.upper()
Upper(s) == [i \in 1..Len(s) |-> UpperChar(s[i])]

\* s[i-1:] of Python, for a 1-based i
From(s, i) == SubSeq(s, i, Len(s))

\* whether k occurs in s starting at index i
OccursAt(s, k, i) ==
  /\ i >= 1
  /\ i + Len(k) - 1 <= Len(s)
  /\ \A j \in 1..Len(k) : s[i + j - 1] = k[j]

\* k in s
Contains(s, k) == \E i \in 1..(Len(s) - Len(k) + 1) : OccursAt(s, k, i)

\* s.find(k) as a 1-based index, 0 when k does not occur
Find(s, k) ==
  IF Contains(s, k)
  THEN CHOOSE i \in 1..(Len(s) - Len(k) + 1) :
         /\ OccursAt(s, k, i)
         /\ \A j \in 1..(i - 1) : ~OccursAt(s, k, j)
  ELSE 0

\* the first index j >= i whose character is outside cs, Len(s) + 1 when none:
\* where a greedy run [cs]* that starts at i ends
RECURSIVE SpanEnd(_, _, _)
SpanEnd(s, i, cs) ==
  IF i > Len(s) \/ s[i] \notin cs THEN i ELSE SpanEnd(s, i + 1, cs)

\* the last index j <= i whose character is outside cs, 0 when none
RECURSIVE SpanStart(_, _, _)
SpanStart(s, i, cs) ==
  IF i < 1 \/ s[i] \notin cs THEN i ELSE SpanStart(s, i - 1, cs)

\* s.lstrip()
LStrip(s) == From(s, SpanEnd(s, 1, Whitespace))

\* s.rstrip()
RStrip(s) == SubSeq(s, 1, SpanStart(s, Len(s), Whitespace))

\* s.strip()
Strip(s) == RStrip(LStrip(s))

\* s.split(): the maximal runs of non-whitespace characters
RECURSIVE SplitFrom(_, _)
SplitFrom(s, i) ==
  IF i > Len(s) THEN <<>>
  ELSE IF s[i] \in Whitespace THEN SplitFrom(s, i + 1)
  ELSE <<SubSeq(s, i, SpanEnd(s, i, {s[k] : k \in 1..Len(s)} \ Whitespace) - 1)>>
       \o SplitFrom(s, SpanEnd(s, i, {s[k] : k \in 1..Len(s)} \ Whitespace))

Split(s) == SplitFrom(s, 1)

\* sep.join(parts)
RECURSIVE Join(_, _)
Join(parts, sep) ==
  IF Len(parts) = 0 THEN <<>>
  ELSE IF Len(parts) = 1 THEN parts[1]
  ELSE parts[1] \o sep \o Join(Tail(parts), sep)

\* re.sub(r'^\*+\s*', '', s): a leading run of asterisks and the whitespace after it
StripStars(s) ==
  IF Len(s) > 0 /\ s[1] = "*"
  THEN From(s, SpanEnd(s, SpanEnd(s, 1, {"*"}), Whitespace))
  ELSE s

\* the mutant: the keyword is looked for anywhere, inside words too
ContainsWord_anywhere(s, k) == Contains(s, k)

\* a keyword written between \b and \b: the keyword with no word character
\* next to it on either side
ContainsWord(s, k) ==
  \E i \in 1..(Len(s) - Len(k) + 1) :
    /\ OccursAt(s, k, i)
    /\ (i = 1 \/ ~IsWordChar(s[i - 1]))
    /\ (i + Len(k) > Len(s) \/ ~IsWordChar(s[i + Len(k)]))

\* Python's None, a value that is no string of the model
None == <<"<None>">>

\* the truth value Python gives a string or None
Truthy(s) == s # None /\ Len(s) > 0

(***************************************************************************)
(* The classification functions of calendar_enhancer.py                    *)
(***************************************************************************)

\* count_stars_in_summary: the length of the leading run of asterisks
count_stars_in_summary(summary) ==
  IF ~Truthy(summary) THEN 0
  ELSE SpanEnd(summary, 1, {"*"}) - 1

\* should_skip_event: only a missing title is filtered
should_skip_event(summary) == ~Truthy(summary)

\* is_already_processed: re.match(r'^\[.*?\]', summary); the dot matches any
\* character but a newline
is_already_processed(summary) ==
  IF ~Truthy(summary) THEN FALSE
  ELSE /\ summary[1] = "["
       /\ \E j \in 2..Len(summary) :
            /\ summary[j] = "]"
            /\ \A k \in 2..(j - 1) : summary[k] # "\n"

\* the keywords of determine_work_type, in the order the code lists them
DesignSubstrings == <<<<"d", "e", "s", "i", "g", "n">>, <<"c", "o", "n", "s", "u", "l", "t", "a", "t", "i", "o", "n">>, <<"e", "s", "t", "i", "m", "a", "t", "e">>>>

DesignWords == <<<<"p", "l", "a", "n", "n", "i", "n", "g">>, <<"p", "l", "a", "n">>>>

OfficeKeywords ==
  <<<<"o", "f", "f", "i", "c", "e">>, <<"i", "n", "v", "o", "i", "c", "e">>, <<"q", "u", "o", "t", "e">>, <<"a", "d", "m", "i", "n">>, <<"p", "a", "p", "e", "r", "w", "o", "r", "k">>, <<"f", "o", "l", "l", "o", "w", "-", "u", "p">>>>

ErrandsKeywords ==
  <<<<"e", "r", "r", "a", "n", "d", "s">>, <<"s", "u", "p", "p", "l", "y">>, <<"p", "i", "c", "k", "u", "p">>, <<"e", "q", "u", "i", "p", "m", "e", "n", "t", " ", "s", "e", "r", "v", "i", "c", "e">>, <<"s", "h", "o", "p">>,
    <<"t", "r", "u", "c", "k", " ", "s", "e", "r", "v", "i", "c", "e">>, <<"t", "o", "o", "l">>, <<"e", "q", "u", "i", "p", "m", "e", "n", "t", " ", "m", "a", "i", "n", "t", "e", "n", "a", "n", "c", "e">>, <<"r", "e", "p", "a", "i", "r">>>>

AdHocKeywords == <<<<"s", "t", "o", "r", "m">>, <<"e", "m", "e", "r", "g", "e", "n", "c", "y">>, <<"u", "r", "g", "e", "n", "t">>, <<"f", "i", "x">>>>

\* any(keyword in s for keyword in keywords)
ContainsAny(s, keywords) == \E n \in 1..Len(keywords) : Contains(s, keywords[n])

Maintenance == <<"M", "a", "i", "n", "t", "e", "n", "a", "n", "c", "e">>

AdHoc == <<"A", "d", "-", "h", "o", "c">>

Design == <<"D", "e", "s", "i", "g", "n">>

OfficeWork == <<"O", "f", "f", "i", "c", "e", " ", "W", "o", "r", "k">>

Errands == <<"E", "r", "r", "a", "n", "d", "s">>

WorkTypes == {Maintenance, AdHoc, Design, OfficeWork, Errands}

\* the if/elif chain of determine_work_type over the cleaned title: the first
\* category with a keyword in it
WorkTypeOfClean(clean_summary) ==
  IF \/ ContainsAny(clean_summary, DesignSubstrings)
     \/ \E n \in 1..Len(DesignWords) : ContainsWord(clean_summary, DesignWords[n])
  THEN Design
  ELSE IF ContainsAny(clean_summary, OfficeKeywords) THEN OfficeWork
  ELSE IF ContainsAny(clean_summary, ErrandsKeywords) THEN Errands
  ELSE IF ContainsAny(clean_summary, AdHocKeywords) THEN AdHoc
  ELSE Maintenance

\* the mutant: Office Work is tested before Design
determine_work_type_office_first(summary) ==
  IF ~Truthy(summary) THEN Maintenance
  ELSE IF ContainsAny(Lower(StripStars(summary)), OfficeKeywords) THEN OfficeWork
  ELSE WorkTypeOfClean(Lower(StripStars(summary)))

\* determine_work_type
determine_work_type(summary) ==
  IF ~Truthy(summary) THEN Maintenance
  ELSE WorkTypeOfClean(Lower(StripStars(summary)))

\* datetime values are instants counted in hours; timedelta.days is the
\* difference floored to whole days
HoursPerDay == 24

TimedeltaDays(later, earlier) == (later - earlier) \div HoursPerDay

Abs(n) == IF n < 0 THEN 0 - n ELSE n

\* the window of determine_status, in days
NearTermDays == 14

LabelC == <<"C">>

LabelT == <<"T">>

LabelP == <<"P">>

\* the mutant: a bracketed title keeps the label it carries
determine_status_keeps_label(summary, event_date, reference_date) ==
  IF Len(summary) >= 3 /\ summary[1] = "[" /\ summary[3] = "]"
  THEN <<"kept", <<summary[2]>>>>
  ELSE IF count_stars_in_summary(summary) = 0 THEN <<"confirmed", LabelC>>
  ELSE IF count_stars_in_summary(summary) = 1
  THEN IF Abs(TimedeltaDays(event_date, reference_date)) <= NearTermDays
       THEN <<"confirmed", LabelC>>
       ELSE <<"tentative", LabelT>>
  ELSE <<"planning", LabelP>>

\* the mutant: the window is applied to every starred title, not only to one star
determine_status_window_first(summary, event_date, reference_date) ==
  IF count_stars_in_summary(summary) = 0 THEN <<"confirmed", LabelC>>
  ELSE IF Abs(TimedeltaDays(event_date, reference_date)) > NearTermDays
  THEN <<"tentative", LabelT>>
  ELSE IF count_stars_in_summary(summary) = 1 THEN <<"confirmed", LabelC>>
  ELSE <<"planning", LabelP>>

\* determine_status: <<status, label>>
determine_status(summary, event_date, reference_date) ==
  IF count_stars_in_summary(summary) = 0 THEN <<"confirmed", LabelC>>
  ELSE IF count_stars_in_summary(summary) = 1
  THEN IF Abs(TimedeltaDays(event_date, reference_date)) <= NearTermDays
       THEN <<"confirmed", LabelC>>
       ELSE <<"tentative", LabelT>>
  ELSE <<"planning", LabelP>>

\* the mutant: the status label is written without its brackets
create_standardized_title_no_brackets(status_label, client_name, work_type, helper_info, notes) ==
  Join((IF ~Truthy(client_name) THEN <<status_label, work_type>>
        ELSE <<status_label, client_name, <<"-">>, work_type>>)
       \o (IF Truthy(helper_info) THEN <<<<"(">> \o helper_info \o <<")">>>> ELSE <<>>)
       \o (IF Truthy(notes) THEN <<<<"|", " ">> \o notes>> ELSE <<>>), <<" ">>)

\* the mutant: the helper segment is written even when there is no helper
create_standardized_title_always_helper(status_label, client_name, work_type, helper_info, notes) ==
  Join((IF ~Truthy(client_name) THEN <<<<"[">> \o status_label \o <<"]">>, work_type>>
        ELSE <<<<"[">> \o status_label \o <<"]">>, client_name, <<"-">>, work_type>>)
       \o <<<<"(">> \o (IF helper_info = None THEN <<>> ELSE helper_info) \o <<")">>>>
       \o (IF Truthy(notes) THEN <<<<"|", " ">> \o notes>> ELSE <<>>), <<" ">>)

\* create_standardized_title: the parts joined by single spaces
create_standardized_title(status_label, client_name, work_type, helper_info, notes) ==
  Join((IF ~Truthy(client_name)
        THEN <<<<"[">> \o status_label \o <<"]">>, work_type>>
        ELSE <<<<"[">> \o status_label \o <<"]">>, client_name, <<"-">>, work_type>>)
       \o (IF Truthy(helper_info) THEN <<<<"(">> \o helper_info \o <<")">>>> ELSE <<>>)
       \o (IF Truthy(notes) THEN <<<<"|", " ">> \o notes>> ELSE <<>>), <<" ">>)

\* the first index from i on that holds the character c, Len(s) + 1 when none
RECURSIVE IndexOf(_, _, _)
IndexOf(s, c, i) ==
  IF i > Len(s) \/ s[i] = c THEN i ELSE IndexOf(s, c, i + 1)

\* group 1 of the status pattern when the whitespace after the closing bracket
\* ends at w and the first dash after the bracket is at d: [^-]+ runs from w to
\* the dash; when the dash follows the whitespace directly, \s* gives its last
\* character back to the group, and there is no match without one
StatusGroupBetween(summary, j, w, d) ==
  IF d > Len(summary) THEN None
  ELSE IF d > w THEN SubSeq(summary, w, d - 1)
  ELSE IF w > j + 1 THEN SubSeq(summary, w - 1, w - 1)
  ELSE None

\* group 1 of re.match(r'^\[.*?\]\s*([^-]+)\s*-\s*.*', summary) when the lazy
\* .*? ends at the closing bracket at index j, None when the rest does not match
StatusGroupAt(summary, j) ==
  StatusGroupBetween(summary, j, SpanEnd(summary, j + 1, Whitespace),
                     IndexOf(summary, "-", j + 1))

\* group 1 for the first closing bracket from j on that gives a match; the dot
\* matches no newline, so the lazy .*? stops at the first newline
RECURSIVE StatusGroupFrom(_, _)
StatusGroupFrom(summary, j) ==
  IF j > Len(summary) \/ summary[j] = "\n" THEN None
  ELSE IF summary[j] = "]" /\ StatusGroupAt(summary, j) # None
  THEN StatusGroupAt(summary, j)
  ELSE StatusGroupFrom(summary, j + 1)

\* group 1 of the status pattern, None when the pattern does not match
StatusMatch(summary) ==
  IF Len(summary) = 0 \/ summary[1] # "[" THEN None
  ELSE StatusGroupFrom(summary, 2)

NonClientKeywords ==
  <<<<"o", "f", "f", "i", "c", "e">>, <<"e", "r", "r", "a", "n", "d", "s">>, <<"e", "q", "u", "i", "p", "m", "e", "n", "t", " ", "m", "a", "i", "n", "t", "e", "n", "a", "n", "c", "e">>, <<"t", "r", "u", "c", "k", " ", "s", "e", "r", "v", "i", "c", "e">>, <<"t", "o", "o", "l">>>>

Separators == <<"+", "(", ",", ":", ";", "-">>

\* the mutant: the text is cut at the separator that comes first in it
CutAtSeparator_leftmost(clean_summary, n) ==
  Strip(SubSeq(clean_summary, 1,
               SpanEnd(clean_summary, 1,
                       {clean_summary[j] : j \in 1..Len(clean_summary)}
                         \ {Separators[k] : k \in 1..Len(Separators)}) - 1))

\* the text before the first separator, in the order of the list, that occurs in
\* clean_summary (split(sep)[0].strip()), clean_summary itself when none occurs
RECURSIVE CutAtSeparator(_, _)
CutAtSeparator(clean_summary, n) ==
  IF n > Len(Separators) THEN clean_summary
  ELSE IF IndexOf(clean_summary, Separators[n], 1) <= Len(clean_summary)
  THEN Strip(SubSeq(clean_summary, 1, IndexOf(clean_summary, Separators[n], 1) - 1))
  ELSE CutAtSeparator(clean_summary, n + 1)

\* the candidates from the words left: the first two joined, and the first
NamesOfWords(words) ==
  IF Len(words) >= 2 THEN <<words[1] \o <<" ">> \o words[2], words[1]>>
  ELSE IF Len(words) = 1 THEN <<words[1], words[1]>>
  ELSE <<<<>>, <<>>>>

\* the mutant: the keywords are looked for in the title as typed
NamesOfUnprocessed_as_typed(clean_summary) ==
  IF ContainsAny(clean_summary, NonClientKeywords) THEN <<None, None>>
  ELSE NamesOfWords(Split(CutAtSeparator(clean_summary, 1)))

\* the candidates of a title that is not in the bracketed form
NamesOfUnprocessed(clean_summary) ==
  IF ContainsAny(Lower(clean_summary), NonClientKeywords) THEN <<None, None>>
  ELSE NamesOfWords(Split(CutAtSeparator(clean_summary, 1)))

NamesOfTitle(summary, status_group) ==
  IF status_group # None THEN <<Strip(status_group), Strip(status_group)>>
  ELSE NamesOfUnprocessed(StripStars(summary))

\* extract_client_name: <<primary, fallback>>, <<None, None>> for a non-client
\* title; the empty title gives the empty string, written as a pair of them
extract_client_name(summary) ==
  IF ~Truthy(summary) THEN <<<<>>, <<>>>>
  ELSE NamesOfTitle(summary, StatusMatch(summary))

\* the position of the first record from n on whose key is name (exactly, or
\* when fold is set up to case), 0 when there is none or name is empty
RECURSIVE FirstKey(_, _, _, _)
FirstKey(clients, name, fold, n) ==
  IF ~Truthy(name) \/ n > Len(clients) THEN 0
  ELSE IF (IF fold THEN Lower(clients[n].key) = Lower(name) ELSE clients[n].key = name)
  THEN n
  ELSE FirstKey(clients, name, fold, n + 1)

\* the first of four positions that is one
FirstFound(a, b, c, d) ==
  IF a # 0 THEN a ELSE IF b # 0 THEN b ELSE IF c # 0 THEN c ELSE d

\* the mutant: the keys are compared up to case from the start
MatchNames_up_to_case(clients, primary_name, fallback_name) ==
  IF primary_name = None THEN 0
  ELSE FirstFound(FirstKey(clients, primary_name, TRUE, 1),
                  FirstKey(clients, fallback_name, TRUE, 1), 0, 0)

\* the lookups of find_matching_client: the exact keys first, then the keys up
\* to case, the primary candidate before the fallback in each
MatchNames(clients, primary_name, fallback_name) ==
  IF primary_name = None THEN 0
  ELSE FirstFound(FirstKey(clients, primary_name, FALSE, 1),
                  FirstKey(clients, fallback_name, FALSE, 1),
                  FirstKey(clients, primary_name, TRUE, 1),
                  FirstKey(clients, fallback_name, TRUE, 1))

MatchOptions(clients, name_options) ==
  MatchNames(clients, name_options[1], name_options[2])

\* find_matching_client: the position in the roster (a dict in insertion order)
\* of the matched record, 0 for None
find_matching_client(event_summary, clients) ==
  IF ~Truthy(event_summary) THEN 0
  ELSE MatchOptions(clients, extract_client_name(event_summary))

NotesKeywords == <<<<"o", "f", "f", "i", "c", "e", " ", "w", "o", "r", "k">>, <<"e", "r", "r", "a", "n", "d", "s">>>>

\* re.sub(r'^[|\-:\s]+', '', notes).strip()
StripNoteSeparators(notes) ==
  Strip(From(notes, SpanEnd(notes, 1, {"|", "-", ":"} \cup Whitespace)))

\* the notes of a non-client title: the lower-cased text after the first
\* occurrence of the keyword, stripped, without its leading separators
NotesAfterKeyword(low, keyword) ==
  StripNoteSeparators(Strip(From(low, Find(low, keyword) + Len(keyword))))

\* re.sub(r'^(maintenance|maint)\s*', '', text, flags=re.IGNORECASE)
StripMaintenance(text) ==
  IF OccursAt(Lower(text), <<"m", "a", "i", "n", "t", "e", "n", "a", "n", "c", "e">>, 1)
  THEN From(text, SpanEnd(text, Len(<<"m", "a", "i", "n", "t", "e", "n", "a", "n", "c", "e">>) + 1, Whitespace))
  ELSE IF OccursAt(Lower(text), <<"m", "a", "i", "n", "t">>, 1)
  THEN From(text, SpanEnd(text, Len(<<"m", "a", "i", "n", "t">>) + 1, Whitespace))
  ELSE text

\* re.sub(r'^[\-\(\)\s]+', '', text), then the trailing whitespace and strip()
StripLeadingPunctuation(text) ==
  Strip(RStrip(From(text, SpanEnd(text, 1, {"-", "(", ")"} \cup Whitespace))))

\* the number of leading words of the title taken as the client's name
ClientWordsConsumed(words, client_words) ==
  IF Len(client_words) = 1
  THEN (IF Len(words) > 0 /\ Lower(words[1]) = Lower(client_words[1]) THEN 1 ELSE 0)
  ELSE IF Len(client_words) = 2
  THEN IF /\ Len(words) >= 2
          /\ Lower(words[1]) = Lower(client_words[1])
          /\ Lower(words[2]) = Lower(client_words[2])
       THEN 2
       ELSE IF Len(words) > 0 /\ Lower(words[1]) = Lower(client_words[1]) THEN 1
       ELSE 0
  ELSE 0

\* the notes from the words after the first start_index ones
NotesOfWords(words, start_index) ==
  IF start_index >= Len(words) THEN <<>>
  ELSE StripLeadingPunctuation(
         StripMaintenance(Join(SubSeq(words, start_index + 1, Len(words)), <<" ">>)))

\* the notes of a client title
NotesOfClientTitle(words, client_name) ==
  NotesOfWords(words, ClientWordsConsumed(words, Split(client_name)))

NotesOfClean(clean_summary, low, client_name) ==
  IF Contains(low, NotesKeywords[1]) THEN NotesAfterKeyword(low, NotesKeywords[1])
  ELSE IF Contains(low, NotesKeywords[2]) THEN NotesAfterKeyword(low, NotesKeywords[2])
  ELSE IF ~Truthy(client_name) THEN <<>>
  ELSE NotesOfClientTitle(Split(clean_summary), client_name)

NotesOfStripped(clean_summary, client_name) ==
  NotesOfClean(clean_summary, Lower(clean_summary), client_name)

\* extract_notes_from_summary
extract_notes_from_summary(summary, client_name) ==
  IF ~Truthy(summary) THEN <<>>
  ELSE NotesOfStripped(StripStars(summary), client_name)

\* where the regular expression anchor $ matches: at the end of the string and
\* before a newline that ends it
AtEnd(s, p) == p = Len(s) + 1 \/ (p = Len(s) /\ s[p] = "\n")

\* the end (exclusive) of a match of (\s+(?:SOLO|solo)|\?|\*+)$ that starts at
\* index i, given where the whitespace and the asterisks that start at i end;
\* 0 when there is none
ModifierEndWith(s, i, w, st) ==
  IF w > i /\ (OccursAt(s, <<"S", "O", "L", "O">>, w) \/ OccursAt(s, <<"s", "o", "l", "o">>, w)) /\ AtEnd(s, w + 4)
  THEN w + 4
  ELSE IF i <= Len(s) /\ s[i] = "?" /\ AtEnd(s, i + 1) THEN i + 1
  ELSE IF st > i /\ AtEnd(s, st) THEN st
  ELSE 0

ModifierEnd(s, i) == ModifierEndWith(s, i, SpanEnd(s, i, Whitespace), SpanEnd(s, i, {"*"}))

\* re.search: the leftmost index from i on where the modifier pattern matches,
\* 0 when it matches nowhere
RECURSIVE ModifierStart(_, _)
ModifierStart(s, i) ==
  IF i > Len(s) THEN 0
  ELSE IF ModifierEnd(s, i) # 0 THEN i
  ELSE ModifierStart(s, i + 1)

\* HELPER_NAME_MAPPING.get(core_name, core_name)
HelperNameMapping(core_name) ==
  IF core_name \in {<<"R", "o", "r", "i", "c", "k">>, <<"r", "o", "r", "i", "c", "k">>, <<"R", "O", "R", "I", "C", "K">>} THEN <<"R", "e", "b", "e", "c", "c", "a">>
  ELSE core_name

\* the end (exclusive) of the match of ^(\*+\s*), 1 when there is none
PrefixEnd(s) ==
  IF Len(s) > 0 /\ s[1] = "*" THEN SpanEnd(s, SpanEnd(s, 1, {"*"}), Whitespace)
  ELSE 1

\* the mutant: a name of the table is written without its modifiers
MapCore_bare_when_mapped(unmodified, prefix_end, modifiers) ==
  IF HelperNameMapping(Strip(From(unmodified, prefix_end))) # Strip(From(unmodified, prefix_end))
  THEN SubSeq(unmodified, 1, prefix_end - 1)
         \o HelperNameMapping(Strip(From(unmodified, prefix_end)))
  ELSE SubSeq(unmodified, 1, prefix_end - 1) \o Strip(From(unmodified, prefix_end))
         \o modifiers

\* prefix + mapped_name + modifiers
MapCore(unmodified, prefix_end, modifiers) ==
  SubSeq(unmodified, 1, prefix_end - 1)
    \o HelperNameMapping(Strip(From(unmodified, prefix_end)))
    \o modifiers

MapUnmodified(unmodified, modifiers) == MapCore(unmodified, PrefixEnd(unmodified), modifiers)

MapAt(helper_name, first) ==
  IF first = 0 THEN MapUnmodified(helper_name, <<>>)
  ELSE MapUnmodified(SubSeq(helper_name, 1, first - 1),
                     SubSeq(helper_name, first, ModifierEnd(helper_name, first) - 1))

\* map_helper_name
map_helper_name(helper_name) ==
  IF ~Truthy(helper_name) THEN helper_name
  ELSE MapAt(helper_name, ModifierStart(helper_name, 1))

\* the mutant: the table has no entry for Ad-hoc, which gets the default
get_color_for_work_type_no_ad_hoc(work_type) ==
  IF work_type = Maintenance THEN "10"
  ELSE IF work_type = Design THEN "3"
  ELSE IF work_type = OfficeWork THEN "8"
  ELSE IF work_type = Errands THEN "6"
  ELSE "10"

\* get_color_for_work_type: WORK_TYPE_COLORS.get(work_type, '10')
get_color_for_work_type(work_type) ==
  IF work_type = Maintenance THEN "10"
  ELSE IF work_type = AdHoc THEN "4"
  ELSE IF work_type = Design THEN "3"
  ELSE IF work_type = OfficeWork THEN "8"
  ELSE IF work_type = Errands THEN "6"
  ELSE "10"

(***************************************************************************)
(* Events, the roster and the helper schedule                              *)
(*                                                                         *)
(* An event is a record with the fields id, summary and start, and the     *)
(* fields (location, colorId, description) an update has written.  Its     *)
(* start is [kind, at]: kind "dateTime" for a timed event, "date" for an   *)
(* all-day event and "none" when neither key is present; at is the instant *)
(* in hours (midnight of the day for an all-day event).                    *)
(***************************************************************************)

\* the all-day test of the engine loop and of extract_helper_info_from_events:
\* 'date' in start and 'dateTime' not in start
IsAllDay(event) == event.start.kind = "date"

\* the date of an instant, which strftime('%Y-%m-%d') prints
DateOf(instant) == instant \div HoursPerDay

\* parse_event_date: the start instant, datetime.now() when there is none
parse_event_date(event, now) ==
  IF event.start.kind \in {"dateTime", "date"} THEN event.start.at ELSE now

HelperSkipKeywords ==
  <<<<"o", "f", "f", "i", "c", "e">>, <<"d", "e", "s", "i", "g", "n">>, <<"i", "n", "v", "o", "i", "c", "e", "s">>, <<"s", "c", "h", "e", "d">>, <<"c", "o", "m", "m", "s">>, <<"p", "d", "x", "n">>, <<"s", "h", "o", "p">>>>

\* the most words a helper entry has
HelperMaxWords == 3

\* whether extract_helper_info_from_events records the stripped title of an
\* all-day event
IsHelperEntry(summary) ==
  /\ Truthy(summary)
  /\ ~ContainsAny(Lower(summary), HelperSkipKeywords)
  /\ Len(Split(summary)) <= HelperMaxWords

\* the mutant: the first entry of a date is kept
Record_keeps_first(schedule, date, summary) ==
  [d \in DOMAIN schedule \cup {date} |-> IF d \in DOMAIN schedule THEN schedule[d] ELSE summary]

\* helper_schedule[date] = summary
Record(schedule, date, summary) ==
  [d \in DOMAIN schedule \cup {date} |-> IF d = date THEN summary ELSE schedule[d]]

\* the pass of the loop of extract_helper_info_from_events over one event
RecordEvent(schedule, event, summary) ==
  IF IsAllDay(event) /\ IsHelperEntry(summary)
  THEN Record(schedule, DateOf(event.start.at), summary)
  ELSE schedule

\* extract_helper_info_from_events: the dict date -> title after the first n
\* events, a later entry for a date replacing the earlier one
RECURSIVE HelperScheduleUpTo(_, _)
HelperScheduleUpTo(events, n) ==
  IF n = 0 THEN [d \in {} |-> <<>>]
  ELSE RecordEvent(HelperScheduleUpTo(events, n - 1), events[n], Strip(events[n].summary))

extract_helper_info_from_events(events) == HelperScheduleUpTo(events, Len(events))

\* the mutant: the schedule is looked up by the instant of the event, not by its
\* date
get_helper_for_date_by_instant(event_date, helper_schedule) ==
  IF event_date \in DOMAIN helper_schedule
  THEN helper_schedule[event_date]
  ELSE None

\* get_helper_for_date
get_helper_for_date(event_date, helper_schedule) ==
  IF DateOf(event_date) \in DOMAIN helper_schedule
  THEN helper_schedule[DateOf(event_date)]
  ELSE None

\* re.sub(r'\s*\([^)]*\)', '', name) from index i on: every run of whitespace
\* followed by a parenthesised group is removed
RECURSIVE RemoveParenthesised(_, _)
RemoveParenthesised(name, i) ==
  IF i > Len(name) THEN <<>>
  ELSE IF /\ SpanEnd(name, i, Whitespace) <= Len(name)
          /\ name[SpanEnd(name, i, Whitespace)] = "("
          /\ IndexOf(name, ")", SpanEnd(name, i, Whitespace) + 1) <= Len(name)
  THEN RemoveParenthesised(name, IndexOf(name, ")", SpanEnd(name, i, Whitespace) + 1) + 1)
  ELSE <<name[i]>> \o RemoveParenthesised(name, i + 1)

\* the roster key parse_sheets_clients gives a name
BaseName(name) == Strip(RemoveParenthesised(name, 1))

\* ' '.join(text): the characters of a string joined by spaces
SpacedOut(text) == Join([i \in 1..Len(text) |-> <<text[i]>>], <<" ">>)

\* a labelled line of a description, left out when its value is empty
LineIf(label, value) == IF Truthy(value) THEN <<label \o value>> ELSE <<>>

\* create_enhanced_description
create_enhanced_description(client_data, service_type, additional_details, helper_info) ==
  Join(<<<<"C", "L", "I", "E", "N", "T", ":", " ">> \o client_data.full_name, <<"S", "E", "R", "V", "I", "C", "E", ":", " ">> \o service_type, <<>>>>
       \o (IF Truthy(helper_info) THEN <<<<"H", "E", "L", "P", "E", "R", ":", " ">> \o helper_info, <<>>>> ELSE <<>>)
       \o (IF Truthy(additional_details)
           THEN <<<<"D", "E", "T", "A", "I", "L", "S", ":", " ">> \o Upper(SpacedOut(additional_details)), <<>>>>
           ELSE <<>>)
       \o LineIf(<<"E", "S", "T", "I", "M", "A", "T", "E", "D", " ", "H", "O", "U", "R", "S", ":", " ">>, client_data.maintenance_hours)
       \o LineIf(<<"P", "R", "I", "O", "R", "I", "T", "Y", ":", " ">>, client_data.priority_level)
       \o LineIf(<<"F", "L", "E", "X", "I", "B", "I", "L", "I", "T", "Y", ":", " ">>, client_data.schedule_flexibility)
       \o <<<<>>>>
       \o (IF Truthy(client_data.geo_zone)
           THEN <<<<"Z", "O", "N", "E", ":", " ">> \o client_data.geo_zone, <<>>>> ELSE <<>>)
       \o (IF Truthy(client_data.special_notes) /\ Truthy(Strip(client_data.special_notes))
           THEN <<<<"N", "O", "T", "E", "S", ":", " ">> \o client_data.special_notes, <<>>>> ELSE <<>>)
       \o LineIf(<<"P", "R", "E", "F", "E", "R", "R", "E", "D", " ", "D", "A", "Y", "S", ":", " ">>, client_data.preferred_days)
       \o LineIf(<<"P", "R", "E", "F", "E", "R", "R", "E", "D", " ", "T", "I", "M", "E", ":", " ">>, client_data.preferred_time),
       <<"\n">>)

\* create_non_client_description
create_non_client_description(work_type, notes, helper_info) ==
  Join(<<<<"W", "O", "R", "K", " ", "T", "Y", "P", "E", ":", " ">> \o work_type>>
       \o LineIf(<<"H", "E", "L", "P", "E", "R", ":", " ">>, helper_info)
       \o LineIf(<<"D", "E", "T", "A", "I", "L", "S", ":", " ">>, notes),
       <<"\n">>)

(***************************************************************************)
(* One pass of the loop of enhance_calendar_events over one event          *)
(***************************************************************************)

\* the mutant: every work type needs a client
ClientWorkTypes_all == WorkTypes

\* is_client_event: the work types that need a client of the roster
ClientWorkTypes == {Maintenance, AdHoc, Design}

\* the payload: title, colour and description, and the client's address as the
\* location when a client was matched
UpdatesFor(clients, matched, work_type, helper_info, notes, status_label) ==
  IF matched # 0
  THEN [summary |-> create_standardized_title(status_label, clients[matched].full_name,
                                              work_type, helper_info, notes),
        colorId |-> get_color_for_work_type(work_type),
        location |-> clients[matched].address,
        description |-> create_enhanced_description(clients[matched], work_type,
                                                    notes, helper_info)]
  ELSE [summary |-> create_standardized_title(status_label, None, work_type,
                                              helper_info, notes),
        colorId |-> get_color_for_work_type(work_type),
        description |-> create_non_client_description(work_type, notes, helper_info)]

\* the helper of the event's date, mapped to the formal name
HelperOn(event_date, helper_schedule) ==
  IF Truthy(get_helper_for_date(event_date, helper_schedule))
  THEN map_helper_name(get_helper_for_date(event_date, helper_schedule))
  ELSE None

UpdatesOn(summary, clients, matched, event_date, helper_schedule, reference_date) ==
  UpdatesFor(clients, matched, determine_work_type(summary),
             HelperOn(event_date, helper_schedule),
             extract_notes_from_summary(
               summary, IF matched # 0 THEN clients[matched].full_name ELSE None),
             determine_status(summary, event_date, reference_date)[2])

\* the update payload the loop builds for an event it does not skip
BuildUpdates(event, clients, helper_schedule, reference_date) ==
  UpdatesOn(event.summary, clients, find_matching_client(event.summary, clients),
            parse_event_date(event, reference_date), helper_schedule, reference_date)

\* the mutant: the loop does not set the all-day events aside
Outcome_classifies_all_day(event, clients, force_reprocess) ==
  IF ~Truthy(event.summary) THEN "no_summary"
  ELSE IF is_already_processed(event.summary) /\ ~force_reprocess THEN "already_processed"
  ELSE IF should_skip_event(event.summary) THEN "filtered"
  ELSE IF /\ determine_work_type(event.summary) \in ClientWorkTypes
          /\ find_matching_client(event.summary, clients) = 0
  THEN "no_match"
  ELSE "update"

\* the mutant: the loop does not stop at an already processed title
Outcome_reprocesses(event, clients, force_reprocess) ==
  IF IsAllDay(event) THEN "all_day"
  ELSE IF ~Truthy(event.summary) THEN "no_summary"
  ELSE IF should_skip_event(event.summary) THEN "filtered"
  ELSE IF /\ determine_work_type(event.summary) \in ClientWorkTypes
          /\ find_matching_client(event.summary, clients) = 0
  THEN "no_match"
  ELSE "update"

\* the mutant: the loop goes on with an event whose client it did not find
Outcome_keeps_unmatched(event, clients, force_reprocess) ==
  IF IsAllDay(event) THEN "all_day"
  ELSE IF ~Truthy(event.summary) THEN "no_summary"
  ELSE IF is_already_processed(event.summary) /\ ~force_reprocess THEN "already_processed"
  ELSE IF should_skip_event(event.summary) THEN "filtered"
  ELSE "update"

\* the branch of the loop body an event takes
Outcome(event, clients, force_reprocess) ==
  IF IsAllDay(event) THEN "all_day"
  ELSE IF ~Truthy(event.summary) THEN "no_summary"
  ELSE IF is_already_processed(event.summary) /\ ~force_reprocess THEN "already_processed"
  ELSE IF should_skip_event(event.summary) THEN "filtered"
  ELSE IF /\ determine_work_type(event.summary) \in ClientWorkTypes
          /\ find_matching_client(event.summary, clients) = 0
  THEN "no_match"
  ELSE "update"

\* the payload of an event that gets none
NoUpdates == <<>>

\* the mutant: the event is written back as the updates alone, under its id
update_event_replaces(stored, event_id, updates, ok) ==
  IF ok
  THEN [n \in 1..Len(stored) |->
          IF stored[n].id = event_id
          THEN [k \in {"id"} \cup DOMAIN updates |->
                  IF k \in DOMAIN updates THEN updates[k] ELSE stored[n][k]]
          ELSE stored[n]]
  ELSE stored

\* update_event of calendar_lib.py on the stored calendar: when the calls
\* succeed (ok) the event is read, every key of updates is overwritten and the
\* event is written back; when one of them fails the calendar is left as it is
update_event(stored, event_id, updates, ok) ==
  IF ok
  THEN [n \in 1..Len(stored) |->
          IF stored[n].id = event_id
          THEN [k \in DOMAIN stored[n] \cup DOMAIN updates |->
                  IF k \in DOMAIN updates THEN updates[k] ELSE stored[n][k]]
          ELSE stored[n]]
  ELSE stored

\* the mutant: the dry-run flag is not consulted
AppliesUpdates_always(dry_run) == TRUE

\* if not dry_run: whether the loop calls update_event for an event to update
AppliesUpdates(dry_run) == ~dry_run

ZeroCounters ==
  [events_to_update |-> 0, events_updated |-> 0, events_skipped_no_match |-> 0,
   events_skipped_filtered |-> 0, events_already_processed |-> 0]

\* the mutant: an attempted update is counted as applied whatever its result
CountEvent_counts_failures(counters, event, outcome, called, ok) ==
  [events_to_update |->
     counters.events_to_update + (IF outcome = "update" THEN 1 ELSE 0),
   events_updated |->
     counters.events_updated + (IF called THEN 1 ELSE 0),
   events_skipped_no_match |->
     counters.events_skipped_no_match + (IF outcome = "no_match" THEN 1 ELSE 0),
   events_skipped_filtered |->
     counters.events_skipped_filtered + (IF outcome = "filtered" THEN 1 ELSE 0),
   events_already_processed |->
     counters.events_already_processed
       + (IF /\ outcome \notin {"all_day", "no_summary"}
             /\ is_already_processed(event.summary)
          THEN 1 ELSE 0)]

\* the counters of the run after one pass of the loop body
CountEvent(counters, event, outcome, called, ok) ==
  [events_to_update |->
     counters.events_to_update + (IF outcome = "update" THEN 1 ELSE 0),
   events_updated |->
     counters.events_updated + (IF called /\ ok THEN 1 ELSE 0),
   events_skipped_no_match |->
     counters.events_skipped_no_match + (IF outcome = "no_match" THEN 1 ELSE 0),
   events_skipped_filtered |->
     counters.events_skipped_filtered + (IF outcome = "filtered" THEN 1 ELSE 0),
   events_already_processed |->
     counters.events_already_processed
       + (IF /\ outcome \notin {"all_day", "no_summary"}
             /\ is_already_processed(event.summary)
          THEN 1 ELSE 0)]

(***************************************************************************)
(* The runs of enhance_calendar_events over a stored calendar              *)
(***************************************************************************)

VARIABLES
  store,            \* the calendar: the stored events, in the order listed
  pc,               \* "idle", "loop" (inside the for loop), "done", "aborted"
  runNo,            \* the number of runs started
  cfg,              \* dry_run, force_reprocess and reference_date of the run
  sheet_read,       \* whether the client sheet can be read
  clients,          \* the roster the run loaded, in insertion order
  events,           \* the events the run fetched
  helper_schedule,  \* the dict built by extract_helper_info_from_events
  idx,              \* the position of the loop in events
  counters,         \* the five counters of the run
  log,              \* per event passed: outcome, payload, update_event result
  prev,             \* the run before this one: its flags, roster and log
  fn,               \* the function a function-level specification applies
  arg,              \* its arguments
  out               \* its result

vars ==
  <<store, pc, runNo, cfg, sheet_read, clients, events, helper_schedule, idx, counters,
    log, prev, fn, arg, out>>

engineVars ==
  <<store, pc, runNo, cfg, sheet_read, clients, events, helper_schedule, idx, counters,
    log, prev>>

\* the most events in the calendar
MaxEvents == 2

\* the most runs over the calendar
MaxRuns == 2

\* a client row of the sheet, as parse_sheets_clients stores it
ClientRow(name, address, special_notes) ==
  [key |-> BaseName(name), full_name |-> name, address |-> address,
   geo_zone |-> <<"N", "E">>, maintenance_hours |-> <<"4">>, priority_level |-> <<>>,
   schedule_flexibility |-> <<>>, special_notes |-> special_notes,
   preferred_days |-> <<"M", "o", "n">>, preferred_time |-> <<>>]

\* the roster parse_sheets_clients returns when the sheet can be read
Roster ==
  <<ClientRow(<<"T", "h", "o", "m", "a", "s">>, <<"1", " ", "E", "l", "m">>, <<>>),
    ClientRow(<<"S", "i", "l", "v", "e", "r", " ", "(", "C", "0", "1", "3", ")">>, <<>>, <<"g", "a", "t", "e">>)>>

\* the instant of the runs: nine o'clock on day 100
Now0 == 100 * HoursPerDay + 9

Timed(at) == [kind |-> "dateTime", at |-> at]

AllDay(day) == [kind |-> "date", at |-> day * HoursPerDay]

NoStart == [kind |-> "none", at |-> 0]

\* the events a calendar of the model is made of: title and start (a date-time,
\* an all-day date, or a start that carries neither)
EventPool ==
  { [summary |-> <<"*", "*", "T", "h", "o", "m", "a", "s", " ", "B", "O", "X", "W", "O", "O", "D", "S", " ", "+", " ", "p", "r", "u", "n", "e">>, start |-> Timed(Now0 + 1)],
    [summary |-> <<"A", "n", "n", "e">>, start |-> AllDay(DateOf(Now0))],
    [summary |-> <<"o", "f", "f", "i", "c", "e", " ", "w", "o", "r", "k", " ", "i", "n", "v", "o", "i", "c", "e", "s">>, start |-> NoStart],
    [summary |-> <<"U", "n", "k", "n", "o", "w", "n", " ", "m", "o", "w">>, start |-> Timed(Now0 + 3)],
    [summary |-> <<"[", "T", "]", " ", "T", "h", "o", "m", "a", "s", " ", "-", " ", "M", "a", "i", "n", "t", "e", "n", "a", "n", "c", "e">>, start |-> Timed(Now0 + 4)],
    [summary |-> <<>>, start |-> Timed(Now0 + 5)] }

\* the calendars of the model: up to MaxEvents events of the pool, the id of an
\* event being its position
Calendars ==
  UNION { { [n \in 1..len |-> [id |-> n, summary |-> f[n].summary, start |-> f[n].start]]
            : f \in [1..len -> EventPool] } : len \in 0..MaxEvents }

NoRun == [pc |-> "none"]

EngineInit ==
  /\ store \in Calendars
  /\ pc = "idle"
  /\ runNo = 0
  /\ cfg = [dry_run |-> FALSE, force_reprocess |-> FALSE, reference_date |-> Now0]
  /\ sheet_read \in BOOLEAN
  /\ clients = <<>>
  /\ events = <<>>
  /\ helper_schedule = [d \in {} |-> <<>>]
  /\ idx = 1
  /\ counters = ZeroCounters
  /\ log = <<>>
  /\ prev = NoRun

Init ==
  /\ EngineInit
  /\ fn = "engine"
  /\ arg = <<>>
  /\ out = <<>>

\* what is kept of a run when the next one starts
LastRun ==
  IF runNo = 0 THEN NoRun
  ELSE [pc |-> pc, cfg |-> cfg, clients |-> clients, log |-> log]

CanStart == pc \in {"idle", "done", "aborted"} /\ runNo < MaxRuns

\* the flags of a run, and the clock it reads
Configs ==
  {[dry_run |-> d, force_reprocess |-> f, reference_date |-> Now0] : d, f \in BOOLEAN}

\* setup_google_calendar_api returns None (the credentials are missing or
\* refused): the run returns before it loads anything
AbortNoService ==
  /\ CanStart
  /\ prev' = LastRun
  /\ runNo' = runNo + 1
  /\ pc' = "aborted"
  /\ clients' = <<>>
  /\ events' = <<>>
  /\ helper_schedule' = [d \in {} |-> <<>>]
  /\ idx' = 1
  /\ counters' = ZeroCounters
  /\ log' = <<>>
  /\ UNCHANGED <<store, cfg, sheet_read, fn, arg, out>>

\* the calendar holds no event: the run returns after loading the roster
\* (parse_sheets_clients returns {} when the sheet cannot be read)
AbortNoEvents ==
  /\ CanStart
  /\ store = <<>>
  /\ prev' = LastRun
  /\ runNo' = runNo + 1
  /\ pc' = "aborted"
  /\ clients' = IF sheet_read THEN Roster ELSE <<>>
  /\ events' = <<>>
  /\ helper_schedule' = [d \in {} |-> <<>>]
  /\ idx' = 1
  /\ counters' = ZeroCounters
  /\ log' = <<>>
  /\ UNCHANGED <<store, cfg, sheet_read, fn, arg, out>>

\* the run loads the roster, fetches the events, builds the helper schedule,
\* reads the clock and enters the loop
StartRun ==
  /\ CanStart
  /\ store # <<>>
  /\ cfg' \in Configs
  /\ prev' = LastRun
  /\ runNo' = runNo + 1
  /\ pc' = "loop"
  /\ clients' = IF sheet_read THEN Roster ELSE <<>>
  /\ events' = store
  /\ helper_schedule' = extract_helper_info_from_events(store)
  /\ idx' = 1
  /\ counters' = ZeroCounters
  /\ log' = <<>>
  /\ UNCHANGED <<store, sheet_read, fn, arg, out>>

\* the end of a pass of the loop body: update_event is called when the event is
\* to be updated and the run is live, and ok is its result; the counters and
\* the log take the pass
EndPass(event, outcome, updates, called) ==
  \E ok \in BOOLEAN :
    /\ called \/ ok
    /\ store' = IF called THEN update_event(store, event.id, updates, ok) ELSE store
    /\ counters' = CountEvent(counters, event, outcome, called, ok)
    /\ log' = Append(log, [outcome |-> outcome, updates |-> updates,
                           called |-> called, ok |-> ok])

\* the mutant: a dry run reports the event without building its payload
Pass_dry_builds_nothing(event, outcome) ==
  EndPass(event, outcome,
          IF outcome = "update" /\ ~cfg.dry_run
          THEN BuildUpdates(event, clients, helper_schedule, cfg.reference_date)
          ELSE NoUpdates,
          outcome = "update" /\ AppliesUpdates(cfg.dry_run))

\* the body of the loop from the payload on: it is built for an event to update,
\* in a dry run as in a live one
Pass(event, outcome) ==
  EndPass(event, outcome,
          IF outcome = "update"
          THEN BuildUpdates(event, clients, helper_schedule, cfg.reference_date)
          ELSE NoUpdates,
          outcome = "update" /\ AppliesUpdates(cfg.dry_run))

\* the mutant: a failed update_event ends the loop
ProcessEvent_stops_on_failure ==
  /\ pc = "loop"
  /\ idx <= Len(events)
  /\ Pass(events[idx], Outcome(events[idx], clients, cfg.force_reprocess))
  /\ idx' = idx + 1
  /\ pc' = IF log'[idx].called /\ ~log'[idx].ok THEN "done" ELSE pc
  /\ UNCHANGED <<runNo, cfg, sheet_read, clients, events, helper_schedule, prev,
                 fn, arg, out>>

\* one pass of the loop body over events[idx]
ProcessEvent ==
  /\ pc = "loop"
  /\ idx <= Len(events)
  /\ Pass(events[idx], Outcome(events[idx], clients, cfg.force_reprocess))
  /\ idx' = idx + 1
  /\ UNCHANGED <<pc, runNo, cfg, sheet_read, clients, events, helper_schedule, prev,
                 fn, arg, out>>

\* the loop has passed every event: the summary is printed and the run returns
FinishRun ==
  /\ pc = "loop"
  /\ idx > Len(events)
  /\ pc' = "done"
  /\ UNCHANGED <<store, runNo, cfg, sheet_read, clients, events, helper_schedule, idx,
                 counters, log, prev, fn, arg, out>>

Next == AbortNoService \/ AbortNoEvents \/ StartRun \/ ProcessEvent \/ FinishRun

Spec == Init /\ [][Next]_vars

(***************************************************************************)
(* Function-level specifications: the arguments are drawn in the initial   *)
(* state and one action applies the function to them                       *)
(***************************************************************************)

\* the value of out before the function is applied
Pending == <<"<pending>">>

\* the engine at rest
EngineIdle ==
  /\ store = <<>>
  /\ pc = "idle"
  /\ runNo = 0
  /\ cfg = [dry_run |-> FALSE, force_reprocess |-> FALSE, reference_date |-> Now0]
  /\ sheet_read = TRUE
  /\ clients = <<>>
  /\ events = <<>>
  /\ helper_schedule = [d \in {} |-> <<>>]
  /\ idx = 1
  /\ counters = ZeroCounters
  /\ log = <<>>
  /\ prev = NoRun

\* the strings over an alphabet of at most n characters
Strings(alphabet, n) == UNION { [1..k -> alphabet] : k \in 0..n }

\* the longest client name, helper and notes given to create_standardized_title
MaxText == 2

StatusLabels == {LabelC, LabelT, LabelP}

TitleArgs ==
  [status_label : StatusLabels,
   client_name : {None} \cup Strings({"T", "-"}, MaxText),
   work_type : WorkTypes,
   helper_info : {None} \cup Strings({"A", "?"}, MaxText),
   notes : Strings({"p", "]", "\n"}, MaxText)]

InitTitle ==
  /\ EngineIdle
  /\ fn = "create_standardized_title"
  /\ arg \in TitleArgs
  /\ out = Pending

ApplyTitle ==
  /\ fn = "create_standardized_title"
  /\ out = Pending
  /\ out' = create_standardized_title(arg.status_label, arg.client_name, arg.work_type,
                                      arg.helper_info, arg.notes)
  /\ UNCHANGED <<engineVars, fn, arg>>

SpecTitle == InitTitle /\ [][ApplyTitle]_vars

\* the most leading asterisks of a title
MaxStars == 3

\* the most days between the event and the reference date
MaxDeltaDays == 16

\* n asterisks
Stars(n) == [i \in 1..n |-> "*"]

StatusArgs ==
  [summary : { Stars(n) \o body : n \in 0..MaxStars,
                                   body \in {<<>>, <<"S", "i", "l", "v", "e", "r">>, <<" ", "*", "x">>, <<"a", "*">>} },
   event_date : { Now0 + h : h \in (0 - MaxDeltaDays * HoursPerDay)..(MaxDeltaDays * HoursPerDay) },
   reference_date : {Now0}]

InitStatus ==
  /\ EngineIdle
  /\ fn = "determine_status"
  /\ arg \in StatusArgs
  /\ out = Pending

ApplyStatus ==
  /\ fn = "determine_status"
  /\ out = Pending
  /\ out' = determine_status(arg.summary, arg.event_date, arg.reference_date)
  /\ UNCHANGED <<engineVars, fn, arg>>

SpecStatus == InitStatus /\ [][ApplyStatus]_vars

\* the most words of a title given to determine_work_type
MaxWords == 2

TitleWords ==
  {<<"d", "e", "s", "i", "g", "n">>, <<"o", "f", "f", "i", "c", "e">>, <<"p", "l", "a", "n">>, <<"p", "l", "a", "n", "t", "i", "n", "g">>, <<"P", "L", "A", "N", ".">>, <<"E", "s", "t", "i", "m", "a", "t", "e">>, <<"t", "o", "o", "l">>,
   <<"s", "t", "o", "r", "m">>, <<"m", "o", "w">>, <<"f", "o", "l", "l", "o", "w", "-", "u", "p">>, <<"p", "l", "a", "n", "t", "s">>, <<"r", "e", "p", "l", "a", "n", "n", "i", "n", "g">>, <<"p", "l", "a", "n", "2">>}

\* the titles of k words
RECURSIVE Phrases(_)
Phrases(k) ==
  IF k = 1 THEN TitleWords
  ELSE { p \o <<" ">> \o w : p \in Phrases(k - 1), w \in TitleWords }

WorkTypeArgs ==
  {<<>>} \cup { Stars(n) \o p : n \in 0..MaxStars,
                                p \in UNION { Phrases(k) : k \in 1..MaxWords } }

InitWorkType ==
  /\ EngineIdle
  /\ fn = "determine_work_type"
  /\ arg \in WorkTypeArgs
  /\ out = Pending

ApplyWorkType ==
  /\ fn = "determine_work_type"
  /\ out = Pending
  /\ out' = determine_work_type(arg)
  /\ UNCHANGED <<engineVars, fn, arg>>

SpecWorkType == InitWorkType /\ [][ApplyWorkType]_vars

(***************************************************************************)
(* The properties of the functions                                         *)
(***************************************************************************)

\* C1: for every status label, client name (present or absent), work type,
\* helper and notes, the title create_standardized_title returns satisfies
\* is_already_processed: it begins with "[" followed by characters up to a
\* first "]"
C1_TitleIsAlreadyProcessed ==
  (fn = "create_standardized_title" /\ out # Pending) => is_already_processed(out)

\* a title made of a client name and of notes that hold a "]" and a newline
C1_Witness ==
  /\ fn = "create_standardized_title"
  /\ out # Pending
  /\ arg.client_name = <<"T", "-">>
  /\ arg.notes = <<"]", "\n">>
  /\ is_already_processed(out)

\* C10: the title is exactly "[<label>] <ClientName> - <WorkType>" for a client
\* event and "[<label>] <WorkType>" for a non-client event, followed by
\* " (<Helper>)" if and only if the helper is non-empty and then by
\* " | <Notes>" if and only if the notes are non-empty
C10_CanonicalTitle ==
  (fn = "create_standardized_title" /\ out # Pending) =>
    out = <<"[">> \o arg.status_label \o <<"]", " ">>
          \o (IF arg.client_name \in {None, <<>>} THEN <<>>
              ELSE arg.client_name \o <<" ", "-", " ">>)
          \o arg.work_type
          \o (IF arg.helper_info \in {None, <<>>} THEN <<>>
              ELSE <<" ", "(">> \o arg.helper_info \o <<")">>)
          \o (IF arg.notes = <<>> THEN <<>> ELSE <<" ", "|", " ">> \o arg.notes)

\* a client title with an empty helper, which is left out, and with notes
C10_Witness ==
  /\ fn = "create_standardized_title"
  /\ arg.status_label = LabelT
  /\ arg.client_name = <<"T">>
  /\ arg.work_type = AdHoc
  /\ arg.helper_info = <<>>
  /\ arg.notes = <<"p">>
  /\ out = <<"[", "T", "]", " ", "T", " ", "-", " ", "A", "d", "-", "h", "o", "c", " ", "|", " ", "p">>

\* C7: a title with no leading asterisk gets confirmed/C and a title with two
\* or more leading asterisks gets planning/P, whatever the event date and the
\* reference date
C7_StatusWithoutDate ==
  (fn = "determine_status" /\ out # Pending) =>
    /\ (arg.summary = <<>> \/ arg.summary[1] # "*") => out = <<"confirmed", LabelC>>
    /\ (Len(arg.summary) >= 2 /\ arg.summary[1] = "*" /\ arg.summary[2] = "*")
         => out = <<"planning", LabelP>>

\* a title of two asterisks more than the window away from the reference date
C7_Witness ==
  /\ fn = "determine_status"
  /\ arg.summary = <<"*", "*", "S", "i", "l", "v", "e", "r">>
  /\ arg.event_date = arg.reference_date + (NearTermDays + 2) * HoursPerDay
  /\ out = <<"planning", LabelP>>

\* C8: a title with exactly one leading asterisk gets confirmed/C when the
\* absolute difference between the start instant of the event and the
\* reference instant is at most 14 days, before or after, and tentative/T
\* otherwise
C8_OneStarWindow ==
  (/\ fn = "determine_status"
   /\ out # Pending
   /\ Len(arg.summary) >= 1
   /\ arg.summary[1] = "*"
   /\ (Len(arg.summary) >= 2 => arg.summary[2] # "*")) =>
    out = IF Abs(arg.event_date - arg.reference_date) <= NearTermDays * HoursPerDay
          THEN <<"confirmed", LabelC>>
          ELSE <<"tentative", LabelT>>

\* C9: determine_work_type returns one of the five work types, the first of
\* Design, Office Work, Errands, Ad-hoc whose keywords the title holds and
\* Maintenance when it holds none; a title that holds both "design" and
\* "office" is Design
C9_WorkTypePrecedence ==
  (fn = "determine_work_type" /\ out # Pending) =>
    /\ out \in WorkTypes
    /\ out = IF \/ ContainsAny(Lower(StripStars(arg)), DesignSubstrings)
                \/ ContainsWord(Lower(StripStars(arg)), <<"p", "l", "a", "n", "n", "i", "n", "g">>)
                \/ ContainsWord(Lower(StripStars(arg)), <<"p", "l", "a", "n">>)
             THEN Design
             ELSE IF ContainsAny(Lower(StripStars(arg)), OfficeKeywords) THEN OfficeWork
             ELSE IF ContainsAny(Lower(StripStars(arg)), ErrandsKeywords) THEN Errands
             ELSE IF ContainsAny(Lower(StripStars(arg)), AdHocKeywords) THEN AdHoc
             ELSE Maintenance
    /\ (Contains(Lower(arg), <<"d", "e", "s", "i", "g", "n">>) /\ Contains(Lower(arg), <<"o", "f", "f", "i", "c", "e">>))
         => out = Design

\* a title that holds both "office" and "design"
C9_Witness ==
  /\ fn = "determine_work_type"
  /\ arg = <<"o", "f", "f", "i", "c", "e", " ", "d", "e", "s", "i", "g", "n">>
  /\ out = Design

(***************************************************************************)
(* The properties of the runs                                              *)
(***************************************************************************)

\* C2: without force_reprocess an event whose title is already processed is
\* neither classified again nor updated; so, after a live run all of whose
\* updates were applied, the next run over the same roster, without
\* force_reprocess, updates no event and makes no update_event call
C2_NoSecondUpdate ==
  (pc \in {"loop", "done"} /\ ~cfg.force_reprocess) =>
    /\ \A i \in 1..Len(log) :
         is_already_processed(events[i].summary) =>
           /\ log[i].outcome # "update"
           /\ log[i].updates = NoUpdates
           /\ ~log[i].called
           /\ store[i] = events[i]
    /\ (/\ prev.pc = "done"
        /\ ~prev.cfg.dry_run
        /\ prev.clients = clients
        /\ \A j \in 1..Len(prev.log) : prev.log[j].ok) =>
         \A i \in 1..Len(log) : log[i].outcome # "update" /\ ~log[i].called

\* a run without force_reprocess that meets the title a live run wrote before it
C2_Witness ==
  /\ pc = "done"
  /\ ~cfg.force_reprocess
  /\ prev.pc = "done"
  /\ ~prev.cfg.dry_run
  /\ \A j \in 1..Len(prev.log) : prev.log[j].ok
  /\ \E i \in 1..Len(log) :
       /\ prev.log[i].outcome = "update"
       /\ prev.log[i].called
       /\ events[i].summary = prev.log[i].updates.summary
       /\ log[i].outcome = "already_processed"

\* C3: in every run, dry or live, forced or not, each event passed ends in one
\* outcome and is counted in exactly one counter of the summary: filtered, no
\* client match, already processed, or to update (updated or failed)
C3_OneCounterPerEvent ==
  pc \in {"loop", "done"} =>
    counters.events_skipped_filtered + counters.events_skipped_no_match
      + counters.events_already_processed + counters.events_to_update = Len(log)

\* C4: in a live run a failed update_event is counted as failed (the updates
\* attempted minus the updates applied), the loop goes on to the end of the
\* list, and each event gets the decision and the payload the fetched events
\* give it, whatever the results of the updates before it (stated of the pass
\* just logged: every pass is the last one in the state it leads to)
C4_FailureCountedRunGoesOn ==
  (pc \in {"loop", "done"} /\ ~cfg.dry_run) =>
    /\ counters.events_to_update - counters.events_updated
         = Cardinality({i \in 1..Len(log) : log[i].called /\ ~log[i].ok})
    /\ idx = Len(log) + 1
    /\ pc = "done" => Len(log) = Len(events)
    /\ \A i \in 1..Len(log) : log[i].called = (log[i].outcome = "update")
    /\ (pc = "loop" /\ log # <<>>) =>
         /\ log[Len(log)].outcome
              = Outcome(events[Len(log)], clients, cfg.force_reprocess)
         /\ log[Len(log)].updates =
              IF log[Len(log)].outcome = "update"
              THEN BuildUpdates(events[Len(log)], clients, helper_schedule,
                                cfg.reference_date)
              ELSE NoUpdates

\* a live run whose first update fails and whose second is applied
C4_Witness ==
  /\ pc = "done"
  /\ ~cfg.dry_run
  /\ Len(log) = 2
  /\ log[1].called /\ ~log[1].ok
  /\ log[2].called /\ log[2].ok
  /\ store[1] = events[1]
  /\ store[2].summary = log[2].updates.summary
  /\ counters.events_to_update = 2
  /\ counters.events_updated = 1

\* C5: a dry run calls update_event for no event, so the stored events stay
\* the events the run fetched
C5_DryRunWritesNothing ==
  (pc \in {"loop", "done"} /\ cfg.dry_run) =>
    /\ store = events
    /\ counters.events_updated = 0
    /\ \A i \in 1..Len(log) : ~log[i].called

\* a finished dry run that had an event to update
C5_Witness ==
  /\ pc = "done"
  /\ cfg.dry_run
  /\ counters.events_to_update >= 1
  /\ \E i \in 1..Len(log) : log[i].outcome = "update" /\ log[i].updates # NoUpdates
  /\ store = events

\* C6: a dry run and the live run after it, over the same events, roster,
\* reference date and force_reprocess, take the same decision and build the
\* same payload for every event, whether the updates of the live run succeed
\* or fail
C6_DryRunSameAsLive ==
  (/\ pc = "done"
   /\ ~cfg.dry_run
   /\ prev.pc = "done"
   /\ prev.cfg.dry_run
   /\ prev.cfg.force_reprocess = cfg.force_reprocess
   /\ prev.cfg.reference_date = cfg.reference_date
   /\ prev.clients = clients) =>
    /\ Len(prev.log) = Len(log)
    /\ \A i \in 1..Len(log) :
         /\ prev.log[i].outcome = log[i].outcome
         /\ prev.log[i].updates = log[i].updates

\* a live run after a dry run, with an update that fails and one that is applied
C6_Witness ==
  /\ pc = "done"
  /\ ~cfg.dry_run
  /\ prev.pc = "done"
  /\ prev.cfg.dry_run
  /\ prev.cfg.force_reprocess = cfg.force_reprocess
  /\ prev.clients = clients
  /\ Len(log) = 2
  /\ log[1].outcome = "update" /\ ~log[1].ok
  /\ log[2].outcome = "update" /\ log[2].ok
  /\ prev.log[1].updates = log[1].updates
  /\ log[1].updates # NoUpdates

(***************************************************************************)
(* The title written for a client, read back by the next pass over it      *)
(***************************************************************************)

\* a roster client and what the loop classified for it
RoundTripArgs ==
  [client : 1..Len(Roster),
   status_label : StatusLabels,
   work_type : WorkTypes,
   helper_info : {None, <<"A", "n", "n", "e">>},
   notes : {<<>>, <<"p", "r", "u", "n", "e">>, <<"B", "O", "X", "W", "O", "O", "D", "S", " ", "+", " ", "p", "r", "u", "n", "e">>}]

\* the title the loop writes for a matched client: its full name is the client
\* name of the title
TitleFor(a) ==
  create_standardized_title(a.status_label, Roster[a.client].full_name, a.work_type,
                            a.helper_info, a.notes)

InitRoundTrip ==
  /\ EngineIdle
  /\ fn = "title_round_trip"
  /\ arg \in RoundTripArgs
  /\ out = Pending

\* the title is written and then read as the loop reads a title: the client by
\* find_matching_client against the same roster, the work type by
\* determine_work_type
ApplyRoundTrip ==
  /\ fn = "title_round_trip"
  /\ out = Pending
  /\ out' = <<find_matching_client(TitleFor(arg), Roster), determine_work_type(TitleFor(arg))>>
  /\ UNCHANGED <<engineVars, fn, arg>>

SpecRoundTrip == InitRoundTrip /\ [][ApplyRoundTrip]_vars

\* C11: for every client record and every classified work type, status, helper
\* and notes, the title create_standardized_title writes, read back through
\* extract_client_name / find_matching_client and determine_work_type, gives
\* the same client of the roster and the same work type
C11_TitleRoundTrip ==
  (fn = "title_round_trip" /\ out # Pending) => out = <<arg.client, arg.work_type>>

(***************************************************************************)
(* The properties of the runs: events the loop skips                       *)
(***************************************************************************)

C13_ConfigurationFailureIsFatal ==
  (runNo > 0 /\ ~sheet_read) =>
    /\ pc = "aborted"
    /\ log = <<>>

\* C14: an event with an empty title, or with a start that carries neither a
\* date-time nor an all-day date, is skipped (it gets no payload) and is
\* counted in the summary, in the counter of the filtered events, apart from
\* the events without a match, already processed, updated and failed
C14_MalformedIsSkippedAndCounted ==
  pc \in {"loop", "done"} =>
    /\ \A i \in 1..Len(log) :
         (events[i].summary = <<>> \/ events[i].start.kind = "none") =>
           /\ log[i].outcome # "update"
           /\ log[i].updates = NoUpdates
           /\ ~log[i].called
    /\ counters.events_skipped_filtered
         = Cardinality({i \in 1..Len(log) :
                          events[i].summary = <<>> \/ events[i].start.kind = "none"})

(***************************************************************************)
(* The payload of one event                                                *)
(***************************************************************************)

PayloadTitles ==
  {<<"*", "*", "T", "h", "o", "m", "a", "s", " ", "B", "O", "X", "W", "O", "O", "D", "S", " ", "+", " ", "p", "r", "u", "n", "e">>, <<"*", "S", "i", "l", "v", "e", "r", " ", "s", "t", "o", "r", "m">>, <<"T", "h", "o", "m", "a", "s", " ", "d", "e", "s", "i", "g", "n">>,
   <<"T", "h", "o", "m", "a", "s", " ", "u", "r", "g", "e", "n", "t", " ", "f", "i", "x">>, <<"s", "i", "l", "v", "e", "r", " ", "m", "a", "i", "n", "t", " ", "h", "e", "d", "g", "e", " ", "(", "f", "r", "o", "n", "t", ")">>, <<"o", "f", "f", "i", "c", "e", " ", "w", "o", "r", "k", " ", "i", "n", "v", "o", "i", "c", "e", "s">>,
   <<"e", "r", "r", "a", "n", "d", "s", ":", " ", "s", "h", "o", "p">>, <<"U", "n", "k", "n", "o", "w", "n", " ", "m", "o", "w">>}

\* the helper schedules: none, and those of one all-day entry on the day of Now0
PayloadSchedules ==
  { extract_helper_info_from_events(day) :
      day \in {<<>>,
               <<[id |-> 1, summary |-> <<"A", "n", "n", "e">>, start |-> AllDay(DateOf(Now0))]>>,
               <<[id |-> 1, summary |-> <<"R", "o", "r", "i", "c", "k", " ", "S", "O", "L", "O">>, start |-> AllDay(DateOf(Now0))]>>} }

PayloadArgs ==
  [event : { [id |-> 1, summary |-> t, start |-> s] : t \in PayloadTitles,
               s \in {Timed(Now0 + 1), Timed(Now0 + (NearTermDays + 6) * HoursPerDay), NoStart} },
   clients : {Roster, <<>>},
   helper_schedule : PayloadSchedules,
   reference_date : {Now0}]

InitPayload ==
  /\ EngineIdle
  /\ fn = "build_updates"
  /\ arg \in PayloadArgs
  /\ out = Pending

\* the pass of the loop over the event: its payload when it is to be updated
ApplyPayload ==
  /\ fn = "build_updates"
  /\ fn' = "updates_built"
  /\ out' = IF Outcome(arg.event, arg.clients, FALSE) = "update"
            THEN BuildUpdates(arg.event, arg.clients, arg.helper_schedule, arg.reference_date)
            ELSE NoUpdates
  /\ UNCHANGED <<engineVars, arg>>

SpecPayload == InitPayload /\ [][ApplyPayload]_vars

\* C15 as stated: the timed event "**Thomas BOXWOODS + prune", with the roster
\* client Thomas and the all-day entry "Anne" on its date, gets the title
\* "[P] Thomas - Maintenance (Anne) | BOXWOODS prune"
C15_ExampleTitleAsStated ==
  (/\ fn = "updates_built"
   /\ arg.event.summary = <<"*", "*", "T", "h", "o", "m", "a", "s", " ", "B", "O", "X", "W", "O", "O", "D", "S", " ", "+", " ", "p", "r", "u", "n", "e">>
   /\ arg.event.start = Timed(Now0 + 1)
   /\ arg.clients = Roster
   /\ DateOf(Now0 + 1) \in DOMAIN arg.helper_schedule
   /\ arg.helper_schedule[DateOf(Now0 + 1)] = <<"A", "n", "n", "e">>) =>
    out.summary = <<"[", "P", "]", " ", "T", "h", "o", "m", "a", "s", " ", "-", " ", "M", "a", "i", "n", "t", "e", "n", "a", "n", "c", "e", " ", "(", "A", "n", "n", "e", ")", " ", "|", " ", "B", "O", "X", "W", "O", "O", "D", "S", " ", "p", "r", "u", "n", "e">>

\* C15 amended: that event gets the title
\* "[P] Thomas - Maintenance (Anne) | BOXWOODS + prune": the "+" stays in the
\* notes, at any start instant of the event on the day of the entry or not
C15_ExampleTitle ==
  (/\ fn = "updates_built"
   /\ arg.event.summary = <<"*", "*", "T", "h", "o", "m", "a", "s", " ", "B", "O", "X", "W", "O", "O", "D", "S", " ", "+", " ", "p", "r", "u", "n", "e">>
   /\ arg.event.start.kind = "dateTime"
   /\ arg.clients = Roster
   /\ DateOf(arg.event.start.at) \in DOMAIN arg.helper_schedule
   /\ arg.helper_schedule[DateOf(arg.event.start.at)] = <<"A", "n", "n", "e">>) =>
    out.summary = <<"[", "P", "]", " ", "T", "h", "o", "m", "a", "s", " ", "-", " ", "M", "a", "i", "n", "t", "e", "n", "a", "n", "c", "e", " ", "(", "A", "n", "n", "e", ")", " ", "|", " ", "B", "O", "X", "W", "O", "O", "D", "S", " ", "+", " ", "p", "r", "u", "n", "e">>

C15_Witness ==
  /\ fn = "updates_built"
  /\ arg.event.summary = <<"*", "*", "T", "h", "o", "m", "a", "s", " ", "B", "O", "X", "W", "O", "O", "D", "S", " ", "+", " ", "p", "r", "u", "n", "e">>
  /\ arg.event.start = Timed(Now0 + 1)
  /\ arg.clients = Roster
  /\ DateOf(Now0 + 1) \in DOMAIN arg.helper_schedule
  /\ arg.helper_schedule[DateOf(Now0 + 1)] = <<"A", "n", "n", "e">>
  /\ out.summary = <<"[", "P", "]", " ", "T", "h", "o", "m", "a", "s", " ", "-", " ", "M", "a", "i", "n", "t", "e", "n", "a", "n", "c", "e", " ", "(", "A", "n", "n", "e", ")", " ", "|", " ", "B", "O", "X", "W", "O", "O", "D", "S", " ", "+", " ", "p", "r", "u", "n", "e">>

\* C16: every emitted update carries the colour of the fixed table for the work
\* type written in its title (Maintenance 10, Ad-hoc 4, Design 3, Office Work 8,
\* Errands 6), the work type standing right after the label or after the
\* client's full name and " - "; a work type outside the table gets colour 10
C16_ColorOfWrittenWorkType ==
  /\ (fn = "updates_built" /\ out # NoUpdates) =>
       \E wt \in WorkTypes, i \in 5..Len(out.summary) :
         /\ OccursAt(out.summary, wt, i)
         /\ \/ i = 5
            \/ \E c \in 1..Len(arg.clients) :
                 SubSeq(out.summary, 5, i - 1) = arg.clients[c].full_name \o <<" ", "-", " ">>
         /\ \/ i + Len(wt) = Len(out.summary) + 1
            \/ OccursAt(out.summary, <<" ", "(">>, i + Len(wt))
            \/ OccursAt(out.summary, <<" ", "|">>, i + Len(wt))
         /\ out.colorId = CASE wt = <<"M", "a", "i", "n", "t", "e", "n", "a", "n", "c", "e">> -> "10"
                            [] wt = <<"A", "d", "-", "h", "o", "c">> -> "4"
                            [] wt = <<"D", "e", "s", "i", "g", "n">> -> "3"
                            [] wt = <<"O", "f", "f", "i", "c", "e", " ", "W", "o", "r", "k">> -> "8"
                            [] wt = <<"E", "r", "r", "a", "n", "d", "s">> -> "6"
  /\ \A other \in {<<"P", "l", "a", "n", "t", "i", "n", "g">>, <<"m", "a", "i", "n", "t", "e", "n", "a", "n", "c", "e">>, <<"A", "d", " ", "h", "o", "c">>, <<>>, None} :
       get_color_for_work_type(other) = "10"

C16_Witness ==
  /\ fn = "updates_built"
  /\ out # NoUpdates
  /\ arg.event.summary = <<"T", "h", "o", "m", "a", "s", " ", "u", "r", "g", "e", "n", "t", " ", "f", "i", "x">>
  /\ OccursAt(out.summary, <<"T", "h", "o", "m", "a", "s", " ", "-", " ", "A", "d", "-", "h", "o", "c">>, 5)
  /\ out.colorId = "4"

(***************************************************************************)
(* The client of a title: extract_client_name and find_matching_client     *)
(***************************************************************************)

MaxRoster == 2

\* the keys of the rosters a title is matched against
MatchKeys == {<<"T", "h", "o", "m", "a", "s">>, <<"t", "h", "o", "m", "a", "s">>, <<"T", "h", "o", "m", "a", "s", " ", "2">>, <<"T", "H", "O", "M", "A", "S", " ", "2">>, <<"T", "o", "o", "l">>}

\* the rosters: dictionaries of at most MaxRoster keys, in insertion order
MatchRosters ==
  { [n \in DOMAIN keys |-> ClientRow(keys[n], <<>>, <<>>)] :
      keys \in { k \in UNION { [1..n -> MatchKeys] : n \in 0..MaxRoster } :
                   \A a, b \in DOMAIN k : k[a] = k[b] => a = b } }

\* the titles: typed shorthand of stars, two words and a tail of details, and a
\* few titles of other shapes
MatchTitles ==
  { s \o a \o j \o b \o t :
      s \in {<<>>, <<"*", "*">>},
      a \in {<<"T", "h", "o", "m", "a", "s">>, <<"T", "H", "O", "M", "A", "S">>, <<"T", "o", "o", "l">>, <<"S", "t", "o", "o", "l", "e">>},
      j \in {<<" ">>, <<" ", "-", " ">>, <<"+">>, <<" ", "(">>},
      b \in {<<>>, <<"2">>, <<"B", "O", "X", "W", "O", "O", "D", "S">>, <<"o", "f", "f", "i", "c", "e">>},
      t \in {<<>>, <<" ", "-", " ", "a", " ", "+", " ", "b">>, <<":", " ", "c", ",", " ", "d">>} }
  \cup {<<>>, <<"*", "*">>, <<"+", " ", "p", "r", "u", "n", "e">>, <<"[", "C", "]", " ", "T", "h", "o", "m", "a", "s", " ", "-", " ", "M", "a", "i", "n", "t", "e", "n", "a", "n", "c", "e">>, <<"[", "C", "]", " ", "T", "o", "o", "l", " ", "-", " ", "x">>,
        <<"*", "[", "x", "]", " ", "t", "r", "u", "c", "k", " ", "s", "e", "r", "v", "i", "c", "e">>, <<"E", "q", "u", "i", "p", "m", "e", "n", "t", " ", "M", "a", "i", "n", "t", "e", "n", "a", "n", "c", "e">>, <<"e", "r", "r", "a", "n", "d", "s">>}

MatchArgs == [summary : MatchTitles, clients : MatchRosters]

InitMatch ==
  /\ EngineIdle
  /\ fn = "find_matching_client"
  /\ arg \in MatchArgs
  /\ out = Pending

\* the candidates of the title and the record found for it, as the loop asks
ApplyMatch ==
  /\ fn = "find_matching_client"
  /\ fn' = "client_matched"
  /\ out' = <<extract_client_name(arg.summary),
              find_matching_client(arg.summary, arg.clients)>>
  /\ UNCHANGED <<engineVars, arg>>

SpecMatch == InitMatch /\ [][ApplyMatch]_vars

\* C17: a title that is not in the bracketed form and whose text after the
\* leading asterisks contains, in any case, one of the keywords office, errands,
\* equipment maintenance, truck service, tool gives the candidates (None, None)
\* and no match in any roster, one with a key that is a word of the title
\* included
C17_NonClientTitleNeverMatches ==
  (/\ fn = "client_matched"
   /\ ~is_already_processed(arg.summary)
   /\ \E keyword \in {<<"o", "f", "f", "i", "c", "e">>, <<"e", "r", "r", "a", "n", "d", "s">>, <<"e", "q", "u", "i", "p", "m", "e", "n", "t", " ", "m", "a", "i", "n", "t", "e", "n", "a", "n", "c", "e">>,
                      <<"t", "r", "u", "c", "k", " ", "s", "e", "r", "v", "i", "c", "e">>, <<"t", "o", "o", "l">>} :
        Contains(Lower(StripStars(arg.summary)), keyword)) =>
    out = <<<<None, None>>, 0>>

C17_Witness ==
  /\ fn = "client_matched"
  /\ arg.summary = <<"*", "*", "T", "o", "o", "l", " ", "B", "O", "X", "W", "O", "O", "D", "S">>
  /\ \E n \in 1..Len(arg.clients) : arg.clients[n].key = <<"T", "o", "o", "l">>
  /\ out = <<<<None, None>>, 0>>

\* C18: for a title that is not in the bracketed form and holds no non-client
\* keyword, the text after the leading asterisks is cut before the first
\* occurrence of the first separator of + ( , : ; - that occurs in it (not cut
\* when none occurs); of the whitespace tokens left, the primary candidate is
\* the first two joined by a space, or the first when it is the only one, and
\* the fallback candidate is the first; both are empty when no token is left
C18_CandidatesOfTitle ==
  (/\ fn = "client_matched"
   /\ Truthy(arg.summary)
   /\ ~is_already_processed(arg.summary)
   /\ \A keyword \in {<<"o", "f", "f", "i", "c", "e">>, <<"e", "r", "r", "a", "n", "d", "s">>, <<"e", "q", "u", "i", "p", "m", "e", "n", "t", " ", "m", "a", "i", "n", "t", "e", "n", "a", "n", "c", "e">>,
                      <<"t", "r", "u", "c", "k", " ", "s", "e", "r", "v", "i", "c", "e">>, <<"t", "o", "o", "l">>} :
        ~Contains(Lower(StripStars(arg.summary)), keyword)) =>
    \E cut \in 0..Len(StripStars(arg.summary)) :
      /\ \/ /\ cut = Len(StripStars(arg.summary))
            /\ \A j \in 1..cut : StripStars(arg.summary)[j] \notin {"+", "(", ",", ":", ";", "-"}
         \/ /\ cut < Len(StripStars(arg.summary))
            /\ \E n \in 1..6 :
                 /\ StripStars(arg.summary)[cut + 1] = <<"+", "(", ",", ":", ";", "-">>[n]
                 /\ \A j \in 1..cut :
                      StripStars(arg.summary)[j] # <<"+", "(", ",", ":", ";", "-">>[n]
                 /\ \A k \in 1..(n - 1), j \in 1..Len(StripStars(arg.summary)) :
                      StripStars(arg.summary)[j] # <<"+", "(", ",", ":", ";", "-">>[k]
      /\ out[1] =
           IF Len(Split(SubSeq(StripStars(arg.summary), 1, cut))) >= 2
           THEN <<Split(SubSeq(StripStars(arg.summary), 1, cut))[1] \o <<" ">>
                    \o Split(SubSeq(StripStars(arg.summary), 1, cut))[2],
                  Split(SubSeq(StripStars(arg.summary), 1, cut))[1]>>
           ELSE IF Len(Split(SubSeq(StripStars(arg.summary), 1, cut))) = 1
           THEN <<Split(SubSeq(StripStars(arg.summary), 1, cut))[1],
                  Split(SubSeq(StripStars(arg.summary), 1, cut))[1]>>
           ELSE <<<<>>, <<>>>>

\* a title with two kinds of separator: it is cut at the "+", though the "-"
\* comes first
C18_Witness ==
  /\ fn = "client_matched"
  /\ arg.summary = <<"*", "*", "T", "h", "o", "m", "a", "s", " ", "2", " ", "-", " ", "a", " ", "+", " ", "b">>
  /\ out[1] = <<<<"T", "h", "o", "m", "a", "s", " ", "2">>, <<"T", "h", "o", "m", "a", "s">>>>

\* C19: with p and f the primary and fallback candidates of the title,
\* find_matching_client returns the record whose key is p; else the one whose
\* key is f; else the first record of the roster whose key equals p up to case;
\* else the first whose key equals f up to case; else none. A record whose key
\* is neither candidate up to case is never returned
C19_MatchPrecedence ==
  (fn = "client_matched" /\ out[1][1] # None) =>
    /\ out[2] \in 0..Len(arg.clients)
    /\ out[2] # 0 =>
         \/ Lower(arg.clients[out[2]].key) = Lower(out[1][1])
         \/ Lower(arg.clients[out[2]].key) = Lower(out[1][2])
    /\ \A n \in 1..Len(arg.clients) :
         /\ arg.clients[n].key = out[1][1] => out[2] = n
         /\ (/\ arg.clients[n].key = out[1][2]
             /\ \A e \in 1..Len(arg.clients) : arg.clients[e].key # out[1][1])
              => out[2] = n
         /\ (/\ Lower(arg.clients[n].key) = Lower(out[1][1])
             /\ \A e \in 1..Len(arg.clients) : arg.clients[e].key \notin {out[1][1], out[1][2]}
             /\ \A e \in 1..(n - 1) : Lower(arg.clients[e].key) # Lower(out[1][1]))
              => out[2] = n
         /\ (/\ Lower(arg.clients[n].key) = Lower(out[1][2])
             /\ \A e \in 1..Len(arg.clients) :
                  /\ arg.clients[e].key \notin {out[1][1], out[1][2]}
                  /\ Lower(arg.clients[e].key) # Lower(out[1][1])
             /\ \A e \in 1..(n - 1) : Lower(arg.clients[e].key) # Lower(out[1][2]))
              => out[2] = n

\* the exact key wins over a key equal up to case that was inserted before it
C19_Witness ==
  /\ fn = "client_matched"
  /\ arg.summary = <<"T", "h", "o", "m", "a", "s", " ", "B", "O", "X", "W", "O", "O", "D", "S">>
  /\ Len(arg.clients) = 2
  /\ arg.clients[1].key = <<"t", "h", "o", "m", "a", "s">>
  /\ arg.clients[2].key = <<"T", "h", "o", "m", "a", "s">>
  /\ out[2] = 2

\* C20: a title in which every "plan" and every "planning" stands next to a
\* letter, a digit or an underscore, that is inside a longer word, and that
\* holds none of design, consultation, estimate, is not classified as Design
C20_PlanInsideWordIsNotDesign ==
  (/\ fn = "determine_work_type"
   /\ out # Pending
   /\ Contains(Lower(arg), <<"p", "l", "a", "n">>)
   /\ \A keyword \in {<<"p", "l", "a", "n">>, <<"p", "l", "a", "n", "n", "i", "n", "g">>} :
        \A i \in 1..(Len(arg) - Len(keyword) + 1) :
          OccursAt(Lower(arg), keyword, i) =>
            \/ i > 1 /\ Lower(arg)[i - 1] \in LowerLetters \cup Digits \cup {"_"}
            \/ /\ i + Len(keyword) <= Len(arg)
               /\ Lower(arg)[i + Len(keyword)] \in LowerLetters \cup Digits \cup {"_"}
   /\ \A keyword \in {<<"d", "e", "s", "i", "g", "n">>, <<"c", "o", "n", "s", "u", "l", "t", "a", "t", "i", "o", "n">>, <<"e", "s", "t", "i", "m", "a", "t", "e">>} :
        ~Contains(Lower(arg), keyword)) =>
    out # Design

C20_Witness ==
  /\ fn = "determine_work_type"
  /\ arg = <<"*", "p", "l", "a", "n", "t", "i", "n", "g", " ", "p", "l", "a", "n", "t", "s">>
  /\ out = Maintenance

(***************************************************************************)
(* The runs over the calendars of one day: all-day entries and timed       *)
(* events of the same date, with the fields the engine does not write      *)
(***************************************************************************)

\* an event as the calendar delivers it: next to its title and start it has an
\* end and a location
DayEvent(summary, start) ==
  [summary |-> summary, start |-> start,
   end |-> [kind |-> start.kind, at |-> start.at + 1], location |-> <<"y", "a", "r", "d">>]

\* the lists of events the calendars of the day are made of
DayLists ==
  { <<>>,
    <<DayEvent(<<"*", "*", "T", "h", "o", "m", "a", "s", " ", "B", "O", "X", "W", "O", "O", "D", "S", " ", "+", " ", "p", "r", "u", "n", "e">>, Timed(Now0 + 1)),
      DayEvent(<<"A", "n", "n", "e">>, AllDay(DateOf(Now0))),
      DayEvent(<<" ", "R", "o", "r", "i", "c", "k", " ", "S", "O", "L", "O", " ">>, AllDay(DateOf(Now0)))>>,
    <<DayEvent(<<"A", "n", "n", "e">>, AllDay(DateOf(Now0))),
      DayEvent(<<"o", "f", "f", "i", "c", "e", " ", "c", "l", "o", "s", "e", "d">>, AllDay(DateOf(Now0))),
      DayEvent(<<"*", "T", "h", "o", "m", "a", "s", " ", "h", "e", "d", "g", "e">>, Timed(Now0 + 2))>>,
    <<DayEvent(<<"M", "e", "g", "a", "n">>, AllDay(DateOf(Now0) + 1)),
      DayEvent(<<"T", "h", "o", "m", "a", "s", " ", "m", "o", "w">>, Timed(Now0 + 2)),
      DayEvent(<<"A", "n", "n", "e", " ", "a", "n", "d", " ", "M", "e", "g", "a", "n", " ", "a", "n", "d", " ", "B", "o", "b">>, AllDay(DateOf(Now0)))>>,
    <<DayEvent(<<"[", "C", "]", " ", "T", "h", "o", "m", "a", "s", " ", "-", " ", "M", "a", "i", "n", "t", "e", "n", "a", "n", "c", "e">>, AllDay(DateOf(Now0))),
      DayEvent(<<"V", "i", "r", "g", "i", "n", "i", "a">>, Timed(Now0 + 1)),
      DayEvent(<<"T", "h", "o", "m", "a", "s">>, AllDay(DateOf(Now0)))>>,
    <<DayEvent(<<>>, AllDay(DateOf(Now0))),
      DayEvent(<<"T", "o", "o", "l", " ", "p", "i", "c", "k", "u", "p">>, Timed(Now0 + 3)),
      DayEvent(<<"T", "h", "o", "m", "a", "s", " ", "u", "r", "g", "e", "n", "t", " ", "f", "i", "x">>, Timed(Now0 + 4))>>,
    <<DayEvent(<<"[", "P", "]", " ", "T", "h", "o", "m", "a", "s", " ", "-", " ", "M", "a", "i", "n", "t", "e", "n", "a", "n", "c", "e", " ", "(", "A", "n", "n", "e", ")", " ", "|", " ", "h", "e", "d", "g", "e">>, Timed(Now0 + 1)),
      DayEvent(<<"[", "T", "]", " ", "O", "f", "f", "i", "c", "e", " ", "W", "o", "r", "k", " ", "|", " ", "i", "n", "v", "o", "i", "c", "e", "s">>, Timed(Now0 + (NearTermDays + 6) * HoursPerDay)),
      DayEvent(<<"A", "n", "n", "e">>, AllDay(DateOf(Now0)))>>,
    <<DayEvent(<<"d", "e", "s", "i", "g", "n", " ", "o", "f", "f", "i", "c", "e">>, Timed(Now0 + 1)),
      DayEvent(<<"*", "*", "t", "r", "u", "c", "k", " ", "s", "e", "r", "v", "i", "c", "e">>, Timed(Now0 + 2)),
      DayEvent(<<"E", "q", "u", "i", "p", "m", "e", "n", "t", " ", "M", "a", "i", "n", "t", "e", "n", "a", "n", "c", "e">>, Timed(Now0 + 3))>>,
    <<DayEvent(<<"U", "n", "k", "n", "o", "w", "n", " ", "m", "o", "w">>, Timed(Now0 + 1)),
      DayEvent(<<"o", "f", "f", "i", "c", "e", " ", "w", "o", "r", "k", " ", "i", "n", "v", "o", "i", "c", "e", "s">>, Timed(Now0 + 2))>>,
    <<DayEvent(<<"T", "h", "o", "m", "a", "s", " ", "t", "o", "o", "l", " ", "s", "h", "e", "d">>, Timed(Now0 + 1)),
      DayEvent(<<"T", "h", "o", "m", "a", "s", " ", "O", "f", "f", "i", "c", "e", " ", "e", "s", "t", "i", "m", "a", "t", "e">>, Timed(Now0 + 2)),
      DayEvent(<<"*", "e", "r", "r", "a", "n", "d", "s", " ", "s", "t", "o", "r", "m", " ", "f", "i", "x">>, Timed(Now0 + 3))>> }

\* the calendars of the day: the id of an event is its position
DayCalendars ==
  { [n \in DOMAIN list |-> [k \in DOMAIN list[n] \cup {"id"} |->
                              IF k = "id" THEN n ELSE list[n][k]]] :
      list \in DayLists }

InitDay ==
  /\ store \in DayCalendars
  /\ pc = "idle"
  /\ runNo = 0
  /\ cfg = [dry_run |-> FALSE, force_reprocess |-> FALSE, reference_date |-> Now0]
  /\ sheet_read \in BOOLEAN
  /\ clients = <<>>
  /\ events = <<>>
  /\ helper_schedule = [d \in {} |-> <<>>]
  /\ idx = 1
  /\ counters = ZeroCounters
  /\ log = <<>>
  /\ prev = NoRun
  /\ fn = "engine"
  /\ arg = <<>>
  /\ out = <<>>

SpecDay == InitDay /\ [][Next]_vars

\* C21: the pass of the loop over an all-day event, whatever its title, changes
\* no counter and no stored event and emits no update; the all-day events of a
\* run are never updated
C21_AllDayOnlyFeedsSchedule ==
  /\ [](pc \in {"loop", "done"} =>
          \A i \in 1..Len(log) :
            events[i].start.kind = "date" =>
              /\ log[i].updates = NoUpdates
              /\ ~log[i].called
              /\ store[i] = events[i])
  /\ [][(pc = "loop" /\ idx <= Len(events) /\ events[idx].start.kind = "date") =>
          /\ counters' = counters
          /\ store' = store
          /\ idx' = idx + 1
          /\ log'[idx].updates = NoUpdates
          /\ ~log'[idx].called]_vars

\* a forced run over the all-day event "[C] Thomas - Maintenance", the timed
\* event "Virginia" and the all-day event "Thomas": only the timed event is
\* counted, and the entry "Thomas" is in the helper schedule
C21_Witness ==
  /\ pc = "done"
  /\ cfg.force_reprocess
  /\ clients = Roster
  /\ Len(events) = 3
  /\ events[1].summary = <<"[", "C", "]", " ", "T", "h", "o", "m", "a", "s", " ", "-", " ", "M", "a", "i", "n", "t", "e", "n", "a", "n", "c", "e">>
  /\ events[1].start.kind = "date"
  /\ store = events
  /\ counters.events_already_processed = 0
  /\ counters.events_to_update = 0
  /\ counters.events_skipped_no_match = 1
  /\ helper_schedule[DateOf(Now0)] = <<"T", "h", "o", "m", "a", "s">>

LoopAdvance == pc = "loop" /\ idx <= Len(events) /\ idx' = idx + 1

\* the loop is sequential code: while events are left the next one is taken
\* (update_event returns, with a result), and the run returns when the list
\* is exhausted
SpecDayFair == InitDay /\ [][Next]_vars /\ WF_idx(LoopAdvance) /\ WF_vars(FinishRun)

\* C27: each step of the loop is the whole pass over the next event of the
\* fetched list, in list order: it logs that event, touches no stored event
\* but that one, and stays in the loop; the run ends only when every event has
\* had its pass; and a run in the loop does end, with one pass per event,
\* whatever was skipped, updated or failed
C27_EveryEventOnceInOrder ==
  /\ [][(pc = "loop" /\ idx <= Len(events)) =>
          /\ pc' = "loop"
          /\ idx' = idx + 1
          /\ events' = events
          /\ Len(log') = idx
          /\ SubSeq(log', 1, Len(log)) = log
          /\ \A n \in 1..Len(store) : n # idx => store'[n] = store[n]
          /\ log'[idx].called => events[idx].id = idx]_vars
  /\ [][(pc = "loop" /\ pc' # "loop") =>
          /\ pc' = "done"
          /\ Len(log) = Len(events)
          /\ log' = log
          /\ store' = store]_vars
  /\ (pc = "loop") ~> (pc = "done" /\ Len(log) = Len(events))

\* a forced live run of three passes: a failed update, an applied update and a
\* skipped all-day event
C27_Witness ==
  /\ pc = "done"
  /\ Len(log) = 3
  /\ log[1].called /\ ~log[1].ok
  /\ log[2].called /\ log[2].ok
  /\ log[3].outcome = "all_day"
  /\ store[1] = events[1]
  /\ store[2].summary = log[2].updates.summary

\* C28: an event with a bracketed title is updated only in a forced run, and
\* the title written for it has the label C, whatever label it carried and
\* whatever its date
C28_ReprocessedGetsLabelC ==
  pc \in {"loop", "done"} =>
    \A i \in 1..Len(log) :
      (log[i].outcome = "update" /\ is_already_processed(events[i].summary)) =>
        /\ cfg.force_reprocess
        /\ OccursAt(log[i].updates.summary, <<"[", "C", "]", " ">>, 1)

\* a forced run over a title with label P in the near term and a title with
\* label T three weeks ahead: both are written with label C
C28_Witness ==
  /\ pc = "done"
  /\ cfg.force_reprocess
  /\ clients = Roster
  /\ Len(log) = 3
  /\ OccursAt(events[1].summary, <<"[", "P", "]">>, 1)
  /\ OccursAt(events[2].summary, <<"[", "T", "]">>, 1)
  /\ events[2].start.at - Now0 > NearTermDays * HoursPerDay
  /\ log[1].outcome = "update"
  /\ log[2].outcome = "update"
  /\ OccursAt(log[1].updates.summary, <<"[", "C", "]">>, 1)
  /\ OccursAt(log[2].updates.summary, <<"[", "C", "]">>, 1)

\* C29: an applied update leaves the event with the title, the colour and the
\* description of the payload, with the address of the client as its location
\* when a client was matched and its own location when none was, and with
\* every other field as fetched; the payload has the keys summary, colorId and
\* description, and location only for a matched client; an event without an
\* applied update is stored as fetched
C29_UpdateWritesOnlyItsKeys ==
  pc \in {"loop", "done"} =>
    \A i \in 1..Len(events) :
      IF i <= Len(log) /\ log[i].called /\ log[i].ok
      THEN /\ DOMAIN store[i] = DOMAIN events[i] \cup {"summary", "colorId", "description"}
           /\ store[i].summary = log[i].updates.summary
           /\ store[i].colorId = log[i].updates.colorId
           /\ store[i].description = log[i].updates.description
           /\ IF find_matching_client(events[i].summary, clients) # 0
              THEN /\ DOMAIN log[i].updates
                        = {"summary", "colorId", "description", "location"}
                   /\ store[i].location
                        = clients[find_matching_client(events[i].summary, clients)].address
              ELSE /\ DOMAIN log[i].updates = {"summary", "colorId", "description"}
                   /\ store[i].location = events[i].location
           /\ \A k \in DOMAIN events[i] \ {"summary", "colorId", "description", "location"} :
                store[i][k] = events[i][k]
      ELSE store[i] = events[i]

\* a live run that skips an all-day event, updates the non-client event
\* "Tool pickup", which keeps its location, and updates an event of Thomas,
\* which gets his address and keeps its end
C29_Witness ==
  /\ pc = "done"
  /\ clients = Roster
  /\ Len(log) = 3
  /\ store[1] = events[1]
  /\ log[2].called /\ log[2].ok
  /\ log[3].called /\ log[3].ok
  /\ events[2].summary = <<"T", "o", "o", "l", " ", "p", "i", "c", "k", "u", "p">>
  /\ "location" \notin DOMAIN log[2].updates
  /\ store[2].location = <<"y", "a", "r", "d">>
  /\ store[3].location = <<"1", " ", "E", "l", "m">>
  /\ store[3].end = events[3].end
  /\ store[3].summary # events[3].summary

\* C30: a timed event whose title is not bracketed and holds, after its
\* asterisks and in any case, one of office, errands, equipment maintenance,
\* truck service, tool has the work type Office Work, Errands or Design, never
\* Maintenance or Ad-hoc; it is updated exactly when the type is Office Work or
\* Errands, with a title that has the work type right after the label and a
\* payload without location; it is skipped as unmatched exactly when the type
\* is Design
C30_NonClientKeywordTitle ==
  pc \in {"loop", "done"} =>
    \A i \in 1..Len(log) :
      (/\ events[i].start.kind = "dateTime"
       /\ ~is_already_processed(events[i].summary)
       /\ \E keyword \in {<<"o", "f", "f", "i", "c", "e">>, <<"e", "r", "r", "a", "n", "d", "s">>, <<"e", "q", "u", "i", "p", "m", "e", "n", "t", " ", "m", "a", "i", "n", "t", "e", "n", "a", "n", "c", "e">>,
                          <<"t", "r", "u", "c", "k", " ", "s", "e", "r", "v", "i", "c", "e">>, <<"t", "o", "o", "l">>} :
            Contains(Lower(StripStars(events[i].summary)), keyword)) =>
        /\ determine_work_type(events[i].summary) \in {<<"O", "f", "f", "i", "c", "e", " ", "W", "o", "r", "k">>, <<"E", "r", "r", "a", "n", "d", "s">>, <<"D", "e", "s", "i", "g", "n">>}
        /\ log[i].outcome = "update"
             <=> determine_work_type(events[i].summary) \in {<<"O", "f", "f", "i", "c", "e", " ", "W", "o", "r", "k">>, <<"E", "r", "r", "a", "n", "d", "s">>}
        /\ log[i].outcome = "no_match"
             <=> determine_work_type(events[i].summary) = <<"D", "e", "s", "i", "g", "n">>
        /\ log[i].outcome = "update" =>
             /\ "location" \notin DOMAIN log[i].updates
             /\ OccursAt(log[i].updates.summary,
                         determine_work_type(events[i].summary), 5)
             /\ log[i].updates.summary[1] = "["
             /\ log[i].updates.summary[3] = "]"

\* a run with the roster of Thomas over "Thomas tool shed", "Thomas Office
\* estimate" and "*errands storm fix": the first and the last are written as
\* Errands without a client, the second is skipped as Design without a match
C30_Witness ==
  /\ pc = "done"
  /\ clients = Roster
  /\ Len(log) = 3
  /\ events[1].summary = <<"T", "h", "o", "m", "a", "s", " ", "t", "o", "o", "l", " ", "s", "h", "e", "d">>
  /\ events[2].summary = <<"T", "h", "o", "m", "a", "s", " ", "O", "f", "f", "i", "c", "e", " ", "e", "s", "t", "i", "m", "a", "t", "e">>
  /\ log[1].outcome = "update"
  /\ log[1].updates.summary = <<"[", "C", "]", " ", "E", "r", "r", "a", "n", "d", "s">>
  /\ log[2].outcome = "no_match"
  /\ log[3].outcome = "update"
  /\ OccursAt(log[3].updates.summary, <<"[", "C", "]", " ", "E", "r", "r", "a", "n", "d", "s">>, 1)

(***************************************************************************)
(* The helper of a day, mapped to the formal name                          *)
(***************************************************************************)

\* the spellings of the informal name: every mix of upper and lower case
RorickSpellings ==
  { [i \in 1..Len(<<"r", "o", "r", "i", "c", "k">>) |-> IF i \in up THEN UpperChar(<<"r", "o", "r", "i", "c", "k">>[i]) ELSE <<"r", "o", "r", "i", "c", "k">>[i]] :
      up \in SUBSET (1..Len(<<"r", "o", "r", "i", "c", "k">>)) }

HelperCores == RorickSpellings \cup {<<"A", "n", "n", "e">>, <<"A", "n", "n", "e", " ", "+", " ", "M", "e", "g", "a", "n">>}

\* a helper string in its parts: the asterisks in front, the name, the
\* whitespace after it and the modifier at the end
HelperArgs ==
  [prefix : {<<>>, <<"*">>, <<"*", "*", " ">>},
   core : HelperCores,
   gap : {<<>>, <<" ">>},
   modifier : {<<>>, <<" ", "S", "O", "L", "O">>, <<" ", "s", "o", "l", "o">>, <<"?">>, <<"*">>, <<"*", "*">>}]

\* the helper string as the all-day entry has it
HelperStringOf(a) == a.prefix \o a.core \o a.gap \o a.modifier

InitHelper ==
  /\ EngineIdle
  /\ fn = "map_helper_name"
  /\ arg \in HelperArgs
  /\ out = Pending

ApplyHelper ==
  /\ fn = "map_helper_name"
  /\ out = Pending
  /\ out' = map_helper_name(HelperStringOf(arg))
  /\ UNCHANGED <<engineVars, fn, arg>>

SpecHelper == InitHelper /\ [][ApplyHelper]_vars

\* C23 as stated: the output is the input with only the core name replaced by
\* its canonical name when it is a key of the table, and the input unchanged
\* when it is not
C23_OnlyCoreReplaced ==
  (fn = "map_helper_name" /\ out # Pending) =>
    out = arg.prefix
            \o (IF arg.core \in {<<"R", "o", "r", "i", "c", "k">>, <<"r", "o", "r", "i", "c", "k">>, <<"R", "O", "R", "I", "C", "K">>} THEN <<"R", "e", "b", "e", "c", "c", "a">>
                ELSE arg.core)
            \o arg.gap \o arg.modifier

\* C23 amended: the output is the prefix, the core name (replaced by its
\* canonical name when it is a key of the table) and the modifier, each once
\* and the prefix and the modifier unchanged; the whitespace between the name
\* and the modifier is kept before SOLO / solo, whose part it is, and dropped
\* before "?" or asterisks and at the end of a name without modifier
C23_ModifiersKept ==
  (fn = "map_helper_name" /\ out # Pending) =>
    out = arg.prefix
            \o (IF arg.core \in {<<"R", "o", "r", "i", "c", "k">>, <<"r", "o", "r", "i", "c", "k">>, <<"R", "O", "R", "I", "C", "K">>} THEN <<"R", "e", "b", "e", "c", "c", "a">>
                ELSE arg.core)
            \o (IF arg.modifier \in {<<" ", "S", "O", "L", "O">>, <<" ", "s", "o", "l", "o">>} THEN arg.gap ELSE <<>>)
            \o arg.modifier

\* an informal name with an asterisk in front and a question mark after a
\* blank: the name is replaced, the asterisk and the question mark stay, the
\* blank goes
C23_Witness ==
  /\ fn = "map_helper_name"
  /\ HelperStringOf(arg) = <<"*", "R", "o", "r", "i", "c", "k", " ", "?">>
  /\ out = <<"*", "R", "e", "b", "e", "c", "c", "a", "?">>

\* C24: the core name is looked up in any case: every spelling of "rorick" in
\* upper and lower case letters is replaced by "Rebecca"
C24_AnySpellingIsMapped ==
  (fn = "map_helper_name" /\ out # Pending /\ Lower(arg.core) = <<"r", "o", "r", "i", "c", "k">>) =>
    /\ Contains(out, <<"R", "e", "b", "e", "c", "c", "a">>)
    /\ ~Contains(Lower(out), <<"r", "o", "r", "i", "c", "k">>)

(***************************************************************************)
(* The notes of a client title                                             *)
(***************************************************************************)

\* the full names of roster clients, of one to three words
NotesClients ==
  {<<"T", "h", "o", "m", "a", "s">>, <<"T", "h", "o", "m", "a", "s", " ", "S", "m", "i", "t", "h">>, <<"T", "h", "o", "m", "a", "s", " ", "(", "C", "0", "0", "1", ")">>, <<"T", "h", "o", "m", "a", "s", " ", "(", "b", "a", "c", "k", " ", "y", "a", "r", "d", ")">>,
   <<"T", "h", "o", "m", "a", "s", " ", "S", "m", "i", "t", "h", " ", "E", "s", "t", "a", "t", "e">>}

\* what is typed after the client
NotesRests ==
  {<<>>, <<" ", "h", "e", "d", "g", "e">>, <<" ", "m", "a", "i", "n", "t", "a", "i", "n", " ", "h", "e", "d", "g", "e">>, <<" ", "m", "a", "i", "n", "t", " ", "(", "f", "r", "o", "n", "t", ")">>,
   <<" ", "m", "a", "i", "n", "t", "e", "n", "a", "n", "c", "e", " ", "h", "e", "d", "g", "e", " ", "(", "b", "a", "c", "k", ")">>, <<" ", "M", "a", "i", "n", "t", "e", "n", "a", "n", "c", "e">>, <<" ", "M", "A", "I", "N", "T", " ", "p", "r", "u", "n", "e", " ", "+", " ", "(", "a", ")", " ">>,
   <<" ", "-", " ", "(", "x", ")", " ", "y">>, <<" ", "m", "a", "i", "n", "t", "e", "n", "a", "n", "c", "e", "h", "e", "d", "g", "e">>, <<" ", "m", "a", "i", "n", "t", ":", " ", "g", "a", "t", "e">>, <<" ", "m", "o", "w", " ", "m", "a", "i", "n", "t">>}

NotesArgs ==
  [summary : { s \o n \o r :
                 s \in {<<>>, <<"*", "*">>},
                 n \in {<<"T", "h", "o", "m", "a", "s">>, <<"t", "h", "o", "m", "a", "s">>, <<"T", "h", "o", "m", "a", "s", " ", "S", "m", "i", "t", "h">>, <<"T", "H", "O", "M", "A", "S", " ", " ", "s", "m", "i", "t", "h">>},
                 r \in NotesRests },
   client_name : NotesClients]

InitNotes ==
  /\ EngineIdle
  /\ fn = "extract_notes_from_summary"
  /\ arg \in NotesArgs
  /\ out = Pending

ApplyNotes ==
  /\ fn = "extract_notes_from_summary"
  /\ out = Pending
  /\ out' = extract_notes_from_summary(arg.summary, arg.client_name)
  /\ UNCHANGED <<engineVars, fn, arg>>

SpecNotes == InitNotes /\ [][ApplyNotes]_vars

\* C25: when the title, after its asterisks, starts with the first word of the
\* client's name in any case, the notes do not start with that word, whatever
\* the number of words of the name
C25_NotesDropClientTokens ==
  (/\ fn = "extract_notes_from_summary"
   /\ out # Pending
   /\ Len(Split(StripStars(arg.summary))) > 0
   /\ Lower(Split(StripStars(arg.summary))[1]) = Lower(Split(arg.client_name)[1])) =>
    \/ Split(out) = <<>>
    \/ Lower(Split(out)[1]) # Lower(Split(arg.client_name)[1])

\* C26: for a client of one word typed first in the title, the notes are the
\* words after it, without the next word when it is "maintenance" or "maint" in
\* any case, joined by single blanks, without the leading "-", "(", ")" and
\* whitespace and the trailing whitespace; a word that only begins with
\* "maint" stays whole
C26_MaintIsAWholeToken ==
  (/\ fn = "extract_notes_from_summary"
   /\ out # Pending
   /\ Len(Split(arg.client_name)) = 1
   /\ Len(Split(StripStars(arg.summary))) > 0
   /\ Lower(Split(StripStars(arg.summary))[1]) = Lower(arg.client_name)) =>
    \E rest \in {SubSeq(Split(StripStars(arg.summary)), 2,
                        Len(Split(StripStars(arg.summary))))} :
      \E kept \in {Join(IF Len(rest) > 0 /\ Lower(rest[1]) \in {<<"m", "a", "i", "n", "t", "e", "n", "a", "n", "c", "e">>, <<"m", "a", "i", "n", "t">>}
                        THEN SubSeq(rest, 2, Len(rest)) ELSE rest, <<" ">>)} :
        out = Strip(From(kept, SpanEnd(kept, 1, {"-", "(", ")", " "})))

====
